---------------------------- MODULE Spec2Model ----------------------------
(***************************************************************************)
(* Model of the quant-backtest API (services/fastapi-api): the options     *)
(* strategy catalog, the strike resolution, the options backtest endpoint  *)
(* with OptionsBacktestEngine.run, and the weight validation of the        *)
(* portfolio backtest entry points.                                        *)
(*                                                                         *)
(* Amounts of money (spot prices, strikes, premiums, P&L) are integers in  *)
(* cents.  A value that the code computes before rounding to 2 decimals is *)
(* kept exactly, in hundredths of a cent.                                  *)
(***************************************************************************)
EXTENDS Integers, Sequences, FiniteSets, TLC

VARIABLES
    \* ---- strategy catalog evaluation (strategies/*.py) ----
    cat_pc,             \* "input" | "evaluated"
    cat_strategy,       \* key of STRATEGY_REGISTRY
    cat_strikes,        \* strikes argument, one per leg
    cat_premiums,       \* premiums argument, one per leg
    cat_entry,          \* entry_stock_price argument (None when omitted)
    cat_payoff,         \* spot |-> calculate_payoff(spot, ...)
    cat_max_profit,     \* get_max_profit(...)
    cat_max_loss,       \* get_max_loss(...)
    cat_breakeven,      \* get_breakeven(...)
    \* ---- strike resolution (_calculate_strikes, calculate_strike_from_selection) ----
    k_pc,               \* "input" | "resolved" | "raised"
    k_strategy,         \* key of STRATEGY_REGISTRY
    k_spot,             \* entry spot price
    k_selection,        \* config.strike_selection: leg index i (key "leg_i") |-> string
    k_strikes,          \* result of _calculate_strikes
    k_fetcher,          \* per leg: result of calculate_strike_from_selection
    \* ---- options backtest: run_options_backtest and OptionsBacktestEngine.run ----
    o_pc,               \* position: "validate" | "fetch" | "check" | "run" | "loop"
                        \*   | "stats" | "returned" | "http_error" | "raised"
    o_caller,           \* "endpoint" (POST /options/backtest) | "direct" (run called on a config)
    o_request,          \* OptionsBacktestRequest
    o_config,           \* OptionsBacktestConfig
    o_price_data,       \* Close prices, one per trading day
    o_volatility_data,  \* historical volatility, one per trading day
    o_fetches,          \* calls of fetch_historical_data_for_options
    o_runs,             \* calls of OptionsBacktestEngine.run
    o_status,           \* HTTP status of the response, 0 while there is none
    o_volatility,       \* run: volatility after filling / fixing
    o_strikes,          \* run: strikes
    o_entry_premiums,   \* run: entry_premiums
    o_day_idx,          \* run: day_idx of the next loop iteration
    o_daily_pnl,        \* run: daily_pnl
    o_greeks_series,    \* run: greeks_series
    o_trades,           \* run: trades
    o_stats,            \* run: stats
    o_payoff_diagram,   \* run: payoff_diagram
    \* ---- portfolio backtest entry points (routers/backtest.py, routers/history.py) ----
    p_pc,               \* "authenticate" | "validate" | "fetch" | "run" | "done"
    p_endpoint,         \* "backtest" | "batch" | "run_and_save"
    p_authenticated,    \* get_current_user finds a user
    p_portfolios,       \* the portfolios of the request: [tickers, weights]
    p_save_to_history,  \* request.save_to_history
    p_status,           \* HTTP status of the response, 0 while there is none
    p_detail,           \* which check answered an error
    p_fetches,          \* calls of fetch_stock_data
    p_engine_runs,      \* calls of BacktestEngine.run
    p_history,          \* BacktestHistory rows added
    \* ---- one call of a function of the pricing, volatility or engine modules ----
    f_pc,               \* "called" | "running" | "returned" | "raised"
    f_in,               \* the arguments
    f_out               \* the locals while running, the result once returned

catVars == <<cat_pc, cat_strategy, cat_strikes, cat_premiums, cat_entry,
             cat_payoff, cat_max_profit, cat_max_loss, cat_breakeven>>

kVars == <<k_pc, k_strategy, k_spot, k_selection, k_strikes, k_fetcher>>

oVars == <<o_pc, o_caller, o_request, o_config, o_price_data, o_volatility_data,
           o_fetches, o_runs, o_status, o_volatility, o_strikes, o_entry_premiums,
           o_day_idx, o_daily_pnl, o_greeks_series, o_trades, o_stats,
           o_payoff_diagram>>

pVars == <<p_pc, p_endpoint, p_authenticated, p_portfolios, p_save_to_history,
           p_status, p_detail, p_fetches, p_engine_runs, p_history>>

fVars == <<f_pc, f_in, f_out>>

vars == <<catVars, kVars, oVars, pVars, fVars>>

---------------------------------------------------------------------------
(* Generic helpers                                                         *)

Max(a, b) == IF a >= b THEN a ELSE b

Min(a, b) == IF a <= b THEN a ELSE b

\* float("inf"), the "unlimited" value of get_max_profit / get_max_loss
Inf == 999999999

\* Python None for the optional entry_stock_price argument
None == -1

---------------------------------------------------------------------------
(* strategies/base.py: enumerations and leg records                        *)

CALL == "call"

PUT == "put"

LONG == "long"

SHORT == "short"

\* Strike selection strings are sequences of characters, so that the
\* parsing done by _calculate_strikes can be modelled as it is written.
ATM == <<"A", "T", "M">>

OTM_5 == <<"O", "T", "M", "_", "5", "%">>

OTM_10 == <<"O", "T", "M", "_", "1", "0", "%">>

ITM_5 == <<"I", "T", "M", "_", "5", "%">>

OptionLeg(option_type, position_type, strike_selection, quantity) ==
    [option_type |-> option_type, position_type |-> position_type,
     strike_selection |-> strike_selection, quantity |-> quantity]

\* StockLeg(PositionType.LONG, 100); NoStockLeg is stock_leg = None
StockLeg(position_type, quantity) ==
    [present |-> TRUE, position_type |-> position_type, quantity |-> quantity]

NoStockLeg == [present |-> FALSE, position_type |-> LONG, quantity |-> 0]

---------------------------------------------------------------------------
(* strategies/single_leg.py                                                *)

LongCall_legs == <<OptionLeg(CALL, LONG, ATM, 1)>>

LongCall_calculate_payoff(spot_price, strikes, premiums, entry_stock_price) ==
    LET K == strikes[1]
        P == premiums[1]
    IN  Max(spot_price - K, 0) - P

LongCall_get_max_profit(strikes, premiums, entry_stock_price) == Inf

LongCall_get_max_loss(strikes, premiums, entry_stock_price) == premiums[1]

LongCall_get_breakeven(strikes, premiums, entry_stock_price) ==
    <<strikes[1] + premiums[1]>>

LongPut_legs == <<OptionLeg(PUT, LONG, ATM, 1)>>

LongPut_calculate_payoff(spot_price, strikes, premiums, entry_stock_price) ==
    LET K == strikes[1]
        P == premiums[1]
    IN  Max(K - spot_price, 0) - P

LongPut_get_max_profit(strikes, premiums, entry_stock_price) ==
    strikes[1] - premiums[1]

LongPut_get_max_loss(strikes, premiums, entry_stock_price) == premiums[1]

LongPut_get_breakeven(strikes, premiums, entry_stock_price) ==
    <<strikes[1] - premiums[1]>>

ShortCall_legs == <<OptionLeg(CALL, SHORT, ATM, 1)>>

ShortCall_calculate_payoff(spot_price, strikes, premiums, entry_stock_price) ==
    LET K == strikes[1]
        P == premiums[1]
    IN  P - Max(spot_price - K, 0)

ShortCall_get_max_profit(strikes, premiums, entry_stock_price) == premiums[1]

ShortCall_get_max_loss(strikes, premiums, entry_stock_price) == Inf

ShortCall_get_breakeven(strikes, premiums, entry_stock_price) ==
    <<strikes[1] + premiums[1]>>

ShortPut_legs == <<OptionLeg(PUT, SHORT, ATM, 1)>>

ShortPut_calculate_payoff(spot_price, strikes, premiums, entry_stock_price) ==
    LET K == strikes[1]
        P == premiums[1]
    IN  P - Max(K - spot_price, 0)

ShortPut_get_max_profit(strikes, premiums, entry_stock_price) == premiums[1]

ShortPut_get_max_loss(strikes, premiums, entry_stock_price) ==
    strikes[1] - premiums[1]

ShortPut_get_breakeven(strikes, premiums, entry_stock_price) ==
    <<strikes[1] - premiums[1]>>

---------------------------------------------------------------------------
(* strategies/spreads.py                                                   *)

BullCallSpread_legs ==
    <<OptionLeg(CALL, LONG, ATM, 1), OptionLeg(CALL, SHORT, OTM_5, 1)>>

BullCallSpread_calculate_payoff(spot_price, strikes, premiums, entry_stock_price) ==
    LET K1 == strikes[1]
        K2 == strikes[2]
        net_debit == premiums[1] - premiums[2]
    IN  Max(spot_price - K1, 0) - Max(spot_price - K2, 0) - net_debit

BullCallSpread_get_max_profit(strikes, premiums, entry_stock_price) ==
    LET width == strikes[2] - strikes[1]
        net_debit == premiums[1] - premiums[2]
    IN  width - net_debit

BullCallSpread_get_max_loss(strikes, premiums, entry_stock_price) ==
    premiums[1] - premiums[2]

BullCallSpread_get_breakeven(strikes, premiums, entry_stock_price) ==
    LET net_debit == premiums[1] - premiums[2]
    IN  <<strikes[1] + net_debit>>

BearPutSpread_legs ==
    <<OptionLeg(PUT, LONG, ATM, 1), OptionLeg(PUT, SHORT, OTM_5, 1)>>

BearPutSpread_calculate_payoff(spot_price, strikes, premiums, entry_stock_price) ==
    LET K1 == strikes[1]
        K2 == strikes[2]
        net_debit == premiums[1] - premiums[2]
    IN  Max(K1 - spot_price, 0) - Max(K2 - spot_price, 0) - net_debit

BearPutSpread_get_max_profit(strikes, premiums, entry_stock_price) ==
    LET width == strikes[1] - strikes[2]
        net_debit == premiums[1] - premiums[2]
    IN  width - net_debit

BearPutSpread_get_max_loss(strikes, premiums, entry_stock_price) ==
    premiums[1] - premiums[2]

BearPutSpread_get_breakeven(strikes, premiums, entry_stock_price) ==
    LET net_debit == premiums[1] - premiums[2]
    IN  <<strikes[1] - net_debit>>

Straddle_legs ==
    <<OptionLeg(CALL, LONG, ATM, 1), OptionLeg(PUT, LONG, ATM, 1)>>

\* K = strikes[0] is used for both legs; strikes[1] is never read
Straddle_calculate_payoff(spot_price, strikes, premiums, entry_stock_price) ==
    LET K == strikes[1]
        total_premium == premiums[1] + premiums[2]
        call_payoff == Max(spot_price - K, 0)
        put_payoff == Max(K - spot_price, 0)
    IN  call_payoff + put_payoff - total_premium

Straddle_get_max_profit(strikes, premiums, entry_stock_price) == Inf

Straddle_get_max_loss(strikes, premiums, entry_stock_price) ==
    premiums[1] + premiums[2]

Straddle_get_breakeven(strikes, premiums, entry_stock_price) ==
    LET total == premiums[1] + premiums[2]
    IN  <<strikes[1] - total, strikes[1] + total>>

Strangle_legs ==
    <<OptionLeg(CALL, LONG, OTM_5, 1), OptionLeg(PUT, LONG, OTM_5, 1)>>

Strangle_calculate_payoff(spot_price, strikes, premiums, entry_stock_price) ==
    LET K_call == strikes[1]
        K_put == strikes[2]
        total_premium == premiums[1] + premiums[2]
        call_payoff == Max(spot_price - K_call, 0)
        put_payoff == Max(K_put - spot_price, 0)
    IN  call_payoff + put_payoff - total_premium

Strangle_get_max_profit(strikes, premiums, entry_stock_price) == Inf

Strangle_get_max_loss(strikes, premiums, entry_stock_price) ==
    premiums[1] + premiums[2]

Strangle_get_breakeven(strikes, premiums, entry_stock_price) ==
    LET total == premiums[1] + premiums[2]
    IN  <<strikes[2] - total, strikes[1] + total>>

---------------------------------------------------------------------------
(* strategies/multi_leg.py                                                 *)

IronCondor_legs ==
    <<OptionLeg(PUT, LONG, OTM_10, 1), OptionLeg(PUT, SHORT, OTM_5, 1),
      OptionLeg(CALL, SHORT, OTM_5, 1), OptionLeg(CALL, LONG, OTM_10, 1)>>

IronCondor_calculate_payoff(spot_price, strikes, premiums, entry_stock_price) ==
    LET K1 == strikes[1]
        K2 == strikes[2]
        K3 == strikes[3]
        K4 == strikes[4]
        net_credit == premiums[2] + premiums[3] - premiums[1] - premiums[4]
        put_spread == Max(K2 - spot_price, 0) - Max(K1 - spot_price, 0)
        call_spread == Max(spot_price - K3, 0) - Max(spot_price - K4, 0)
    IN  net_credit - put_spread - call_spread

IronCondor_get_max_profit(strikes, premiums, entry_stock_price) ==
    premiums[2] + premiums[3] - premiums[1] - premiums[4]

\* mutant: the width taken from the call spread (strikes[3] - strikes[2])
IronCondor_get_max_loss_CallWidth(strikes, premiums, entry_stock_price) ==
    LET width == strikes[4] - strikes[3]
        net_credit == IronCondor_get_max_profit(strikes, premiums, None)
    IN  width - net_credit

\* width is the put spread's; "Assuming equal width spreads"
IronCondor_get_max_loss(strikes, premiums, entry_stock_price) ==
    LET width == strikes[2] - strikes[1]
        net_credit == IronCondor_get_max_profit(strikes, premiums, None)
    IN  width - net_credit

IronCondor_get_breakeven(strikes, premiums, entry_stock_price) ==
    LET net_credit == IronCondor_get_max_profit(strikes, premiums, None)
    IN  <<strikes[2] - net_credit, strikes[3] + net_credit>>

IronButterfly_legs ==
    <<OptionLeg(PUT, LONG, OTM_5, 1), OptionLeg(PUT, SHORT, ATM, 1),
      OptionLeg(CALL, SHORT, ATM, 1), OptionLeg(CALL, LONG, OTM_5, 1)>>

IronButterfly_calculate_payoff(spot_price, strikes, premiums, entry_stock_price) ==
    LET K_low == strikes[1]
        K_atm_put == strikes[2]
        K_atm_call == strikes[3]
        K_high == strikes[4]
        net_credit == premiums[2] + premiums[3] - premiums[1] - premiums[4]
        long_put == Max(K_low - spot_price, 0)
        short_put == Max(K_atm_put - spot_price, 0)
        short_call == Max(spot_price - K_atm_call, 0)
        long_call == Max(spot_price - K_high, 0)
    IN  net_credit - short_put - short_call + long_put + long_call

IronButterfly_get_max_profit(strikes, premiums, entry_stock_price) ==
    premiums[2] + premiums[3] - premiums[1] - premiums[4]

IronButterfly_get_max_loss(strikes, premiums, entry_stock_price) ==
    LET width == strikes[2] - strikes[1]
    IN  width - IronButterfly_get_max_profit(strikes, premiums, None)

IronButterfly_get_breakeven(strikes, premiums, entry_stock_price) ==
    LET net_credit == IronButterfly_get_max_profit(strikes, premiums, None)
        atm == strikes[2]
    IN  <<atm - net_credit, atm + net_credit>>

ButterflySpread_legs ==
    <<OptionLeg(CALL, LONG, ITM_5, 1), OptionLeg(CALL, SHORT, ATM, 2),
      OptionLeg(CALL, LONG, OTM_5, 1)>>

ButterflySpread_calculate_payoff(spot_price, strikes, premiums, entry_stock_price) ==
    LET K1 == strikes[1]
        K2 == strikes[2]
        K3 == strikes[3]
        net_debit == premiums[1] + premiums[3] - 2 * premiums[2]
    IN  Max(spot_price - K1, 0) - 2 * Max(spot_price - K2, 0)
          + Max(spot_price - K3, 0) - net_debit

ButterflySpread_get_max_profit(strikes, premiums, entry_stock_price) ==
    LET width == strikes[2] - strikes[1]
        net_debit == premiums[1] + premiums[3] - 2 * premiums[2]
    IN  width - net_debit

ButterflySpread_get_max_loss(strikes, premiums, entry_stock_price) ==
    premiums[1] + premiums[3] - 2 * premiums[2]

ButterflySpread_get_breakeven(strikes, premiums, entry_stock_price) ==
    LET net_debit == ButterflySpread_get_max_loss(strikes, premiums, None)
    IN  <<strikes[1] + net_debit, strikes[3] - net_debit>>

\* x * 0.95 and x * 0.05 / 1.05 of the approximations used when
\* entry_stock_price is omitted; exact for the multiples of 20 cents
Pct(x, p) == (x * p) \div 100

CoveredCall_legs == <<OptionLeg(CALL, SHORT, OTM_5, 1)>>

CoveredCall_calculate_payoff(spot_price, strikes, premiums, entry_stock_price) ==
    LET K == strikes[1]
        P == premiums[1]
        entry == IF entry_stock_price = None THEN Pct(K, 95) ELSE entry_stock_price
        stock_pnl == spot_price - entry
        option_pnl == P - Max(spot_price - K, 0)
    IN  stock_pnl + option_pnl

CoveredCall_get_max_profit(strikes, premiums, entry_stock_price) ==
    IF entry_stock_price = None
    THEN Pct(strikes[1], 5) + premiums[1]
    ELSE strikes[1] - entry_stock_price + premiums[1]

CoveredCall_get_max_loss(strikes, premiums, entry_stock_price) ==
    IF entry_stock_price = None THEN Inf ELSE entry_stock_price - premiums[1]

CoveredCall_get_breakeven(strikes, premiums, entry_stock_price) ==
    IF entry_stock_price = None THEN <<>> ELSE <<entry_stock_price - premiums[1]>>

ProtectivePut_legs == <<OptionLeg(PUT, LONG, OTM_5, 1)>>

ProtectivePut_calculate_payoff(spot_price, strikes, premiums, entry_stock_price) ==
    LET K == strikes[1]
        P == premiums[1]
        entry == IF entry_stock_price = None THEN spot_price ELSE entry_stock_price
        stock_pnl == spot_price - entry
        put_payoff == Max(K - spot_price, 0) - P
    IN  stock_pnl + put_payoff

ProtectivePut_get_max_profit(strikes, premiums, entry_stock_price) == Inf

ProtectivePut_get_max_loss(strikes, premiums, entry_stock_price) ==
    IF entry_stock_price = None
    THEN premiums[1]
    ELSE entry_stock_price - strikes[1] + premiums[1]

ProtectivePut_get_breakeven(strikes, premiums, entry_stock_price) ==
    IF entry_stock_price = None THEN <<>> ELSE <<entry_stock_price + premiums[1]>>

Collar_legs ==
    <<OptionLeg(PUT, LONG, OTM_5, 1), OptionLeg(CALL, SHORT, OTM_5, 1)>>

Collar_calculate_payoff(spot_price, strikes, premiums, entry_stock_price) ==
    LET K_put == strikes[1]
        K_call == strikes[2]
        net_cost == premiums[1] - premiums[2]
        entry == IF entry_stock_price = None THEN spot_price ELSE entry_stock_price
        stock_pnl == spot_price - entry
        put_payoff == Max(K_put - spot_price, 0)
        call_liability == Max(spot_price - K_call, 0)
    IN  stock_pnl + put_payoff - call_liability - net_cost

Collar_get_max_profit(strikes, premiums, entry_stock_price) ==
    LET entry == IF entry_stock_price = None
                 THEN Pct(strikes[2], 95) ELSE entry_stock_price
        net_cost == premiums[1] - premiums[2]
    IN  strikes[2] - entry - net_cost

Collar_get_max_loss(strikes, premiums, entry_stock_price) ==
    LET entry == IF entry_stock_price = None
                 THEN Pct(strikes[1], 105) ELSE entry_stock_price
        net_cost == premiums[1] - premiums[2]
    IN  entry - strikes[1] + net_cost

Collar_get_breakeven(strikes, premiums, entry_stock_price) ==
    IF entry_stock_price = None
    THEN <<>>
    ELSE <<entry_stock_price + (premiums[1] - premiums[2])>>

---------------------------------------------------------------------------
(* strategies/__init__.py: the registry and the dispatch on the strategy   *)

STRATEGY_REGISTRY ==
    {"long_call", "long_put", "short_call", "short_put",
     "bull_call_spread", "bear_put_spread", "straddle", "strangle",
     "iron_condor", "iron_butterfly", "butterfly_spread",
     "covered_call", "protective_put", "collar"}

\* get_definition().legs of the strategy registered under s
Legs(s) ==
    CASE s = "long_call" -> LongCall_legs
      [] s = "long_put" -> LongPut_legs
      [] s = "short_call" -> ShortCall_legs
      [] s = "short_put" -> ShortPut_legs
      [] s = "bull_call_spread" -> BullCallSpread_legs
      [] s = "bear_put_spread" -> BearPutSpread_legs
      [] s = "straddle" -> Straddle_legs
      [] s = "strangle" -> Strangle_legs
      [] s = "iron_condor" -> IronCondor_legs
      [] s = "iron_butterfly" -> IronButterfly_legs
      [] s = "butterfly_spread" -> ButterflySpread_legs
      [] s = "covered_call" -> CoveredCall_legs
      [] s = "protective_put" -> ProtectivePut_legs
      [] s = "collar" -> Collar_legs

\* get_definition().stock_leg
StockLegOf(s) ==
    IF s \in {"covered_call", "protective_put", "collar"}
    THEN StockLeg(LONG, 100)
    ELSE NoStockLeg

calculate_payoff(s, spot_price, strikes, premiums, entry_stock_price) ==
    CASE s = "long_call" -> LongCall_calculate_payoff(spot_price, strikes, premiums, entry_stock_price)
      [] s = "long_put" -> LongPut_calculate_payoff(spot_price, strikes, premiums, entry_stock_price)
      [] s = "short_call" -> ShortCall_calculate_payoff(spot_price, strikes, premiums, entry_stock_price)
      [] s = "short_put" -> ShortPut_calculate_payoff(spot_price, strikes, premiums, entry_stock_price)
      [] s = "bull_call_spread" -> BullCallSpread_calculate_payoff(spot_price, strikes, premiums, entry_stock_price)
      [] s = "bear_put_spread" -> BearPutSpread_calculate_payoff(spot_price, strikes, premiums, entry_stock_price)
      [] s = "straddle" -> Straddle_calculate_payoff(spot_price, strikes, premiums, entry_stock_price)
      [] s = "strangle" -> Strangle_calculate_payoff(spot_price, strikes, premiums, entry_stock_price)
      [] s = "iron_condor" -> IronCondor_calculate_payoff(spot_price, strikes, premiums, entry_stock_price)
      [] s = "iron_butterfly" -> IronButterfly_calculate_payoff(spot_price, strikes, premiums, entry_stock_price)
      [] s = "butterfly_spread" -> ButterflySpread_calculate_payoff(spot_price, strikes, premiums, entry_stock_price)
      [] s = "covered_call" -> CoveredCall_calculate_payoff(spot_price, strikes, premiums, entry_stock_price)
      [] s = "protective_put" -> ProtectivePut_calculate_payoff(spot_price, strikes, premiums, entry_stock_price)
      [] s = "collar" -> Collar_calculate_payoff(spot_price, strikes, premiums, entry_stock_price)

get_max_profit(s, strikes, premiums, entry_stock_price) ==
    CASE s = "long_call" -> LongCall_get_max_profit(strikes, premiums, entry_stock_price)
      [] s = "long_put" -> LongPut_get_max_profit(strikes, premiums, entry_stock_price)
      [] s = "short_call" -> ShortCall_get_max_profit(strikes, premiums, entry_stock_price)
      [] s = "short_put" -> ShortPut_get_max_profit(strikes, premiums, entry_stock_price)
      [] s = "bull_call_spread" -> BullCallSpread_get_max_profit(strikes, premiums, entry_stock_price)
      [] s = "bear_put_spread" -> BearPutSpread_get_max_profit(strikes, premiums, entry_stock_price)
      [] s = "straddle" -> Straddle_get_max_profit(strikes, premiums, entry_stock_price)
      [] s = "strangle" -> Strangle_get_max_profit(strikes, premiums, entry_stock_price)
      [] s = "iron_condor" -> IronCondor_get_max_profit(strikes, premiums, entry_stock_price)
      [] s = "iron_butterfly" -> IronButterfly_get_max_profit(strikes, premiums, entry_stock_price)
      [] s = "butterfly_spread" -> ButterflySpread_get_max_profit(strikes, premiums, entry_stock_price)
      [] s = "covered_call" -> CoveredCall_get_max_profit(strikes, premiums, entry_stock_price)
      [] s = "protective_put" -> ProtectivePut_get_max_profit(strikes, premiums, entry_stock_price)
      [] s = "collar" -> Collar_get_max_profit(strikes, premiums, entry_stock_price)

get_max_loss(s, strikes, premiums, entry_stock_price) ==
    CASE s = "long_call" -> LongCall_get_max_loss(strikes, premiums, entry_stock_price)
      [] s = "long_put" -> LongPut_get_max_loss(strikes, premiums, entry_stock_price)
      [] s = "short_call" -> ShortCall_get_max_loss(strikes, premiums, entry_stock_price)
      [] s = "short_put" -> ShortPut_get_max_loss(strikes, premiums, entry_stock_price)
      [] s = "bull_call_spread" -> BullCallSpread_get_max_loss(strikes, premiums, entry_stock_price)
      [] s = "bear_put_spread" -> BearPutSpread_get_max_loss(strikes, premiums, entry_stock_price)
      [] s = "straddle" -> Straddle_get_max_loss(strikes, premiums, entry_stock_price)
      [] s = "strangle" -> Strangle_get_max_loss(strikes, premiums, entry_stock_price)
      [] s = "iron_condor" -> IronCondor_get_max_loss(strikes, premiums, entry_stock_price)
      [] s = "iron_butterfly" -> IronButterfly_get_max_loss(strikes, premiums, entry_stock_price)
      [] s = "butterfly_spread" -> ButterflySpread_get_max_loss(strikes, premiums, entry_stock_price)
      [] s = "covered_call" -> CoveredCall_get_max_loss(strikes, premiums, entry_stock_price)
      [] s = "protective_put" -> ProtectivePut_get_max_loss(strikes, premiums, entry_stock_price)
      [] s = "collar" -> Collar_get_max_loss(strikes, premiums, entry_stock_price)

get_breakeven(s, strikes, premiums, entry_stock_price) ==
    CASE s = "long_call" -> LongCall_get_breakeven(strikes, premiums, entry_stock_price)
      [] s = "long_put" -> LongPut_get_breakeven(strikes, premiums, entry_stock_price)
      [] s = "short_call" -> ShortCall_get_breakeven(strikes, premiums, entry_stock_price)
      [] s = "short_put" -> ShortPut_get_breakeven(strikes, premiums, entry_stock_price)
      [] s = "bull_call_spread" -> BullCallSpread_get_breakeven(strikes, premiums, entry_stock_price)
      [] s = "bear_put_spread" -> BearPutSpread_get_breakeven(strikes, premiums, entry_stock_price)
      [] s = "straddle" -> Straddle_get_breakeven(strikes, premiums, entry_stock_price)
      [] s = "strangle" -> Strangle_get_breakeven(strikes, premiums, entry_stock_price)
      [] s = "iron_condor" -> IronCondor_get_breakeven(strikes, premiums, entry_stock_price)
      [] s = "iron_butterfly" -> IronButterfly_get_breakeven(strikes, premiums, entry_stock_price)
      [] s = "butterfly_spread" -> ButterflySpread_get_breakeven(strikes, premiums, entry_stock_price)
      [] s = "covered_call" -> CoveredCall_get_breakeven(strikes, premiums, entry_stock_price)
      [] s = "protective_put" -> ProtectivePut_get_breakeven(strikes, premiums, entry_stock_price)
      [] s = "collar" -> Collar_get_breakeven(strikes, premiums, entry_stock_price)

---------------------------------------------------------------------------
(* Strings: the str methods used on a strike selection                     *)

\* selection.startswith(prefix)
StartsWith(str, prefix) ==
    Len(str) >= Len(prefix) /\ SubSeq(str, 1, Len(prefix)) = prefix

\* index of the first "_" at or after position from, Len(str) + 1 if none
RECURSIVE FindUnderscore(_, _)
FindUnderscore(str, from) ==
    IF from > Len(str) THEN Len(str) + 1
    ELSE IF str[from] = "_" THEN from
    ELSE FindUnderscore(str, from + 1)

\* selection.split("_")[1], for a string that holds a "_"
SplitField1(str) ==
    LET i == FindUnderscore(str, 1)
        j == FindUnderscore(str, i + 1)
    IN  SubSeq(str, i + 1, j - 1)

IsNotPercent(ch) == ch # "%"

\* text.replace("%", "")
RemovePercent(str) == SelectSeq(str, IsNotPercent)

Digits == {"0", "1", "2", "3", "4", "5", "6", "7", "8", "9"}

DigitValue(ch) ==
    CASE ch = "0" -> 0 [] ch = "1" -> 1 [] ch = "2" -> 2 [] ch = "3" -> 3
      [] ch = "4" -> 4 [] ch = "5" -> 5 [] ch = "6" -> 6 [] ch = "7" -> 7
      [] ch = "8" -> 8 [] ch = "9" -> 9

RECURSIVE DecimalValue(_)
DecimalValue(str) ==
    IF str = <<>> THEN 0
    ELSE DecimalValue(SubSeq(str, 1, Len(str) - 1)) * 10 + DigitValue(str[Len(str)])

\* float(text): the value of a string of digits, ValueError (raised) for the
\* empty string and for a string with any other character.  The selection
\* strings of the model hold no sign, point, exponent, blank, "inf" or "nan",
\* the other forms float() accepts.
ParseFloat(str) ==
    IF str # <<>> /\ \A i \in 1..Len(str) : str[i] \in Digits
    THEN [raised |-> FALSE, value |-> DecimalValue(str)]
    ELSE [raised |-> TRUE, value |-> 0]

---------------------------------------------------------------------------
(* Strike resolution.  A strike before rounding is exact, in hundredths of *)
(* a cent; the spot price and the rounded strike are in cents.             *)

OTM_PREFIX == <<"O", "T", "M", "_">>

ITM_PREFIX == <<"I", "T", "M", "_">>

Returned(v) == [raised |-> FALSE, value |-> v]

ValueError == [raised |-> TRUE, value |-> 0]

\* data/options_fetcher.py: calculate_strike_from_selection
calculate_strike_from_selection(spot_price, selection, option_type) ==
    IF selection = ATM THEN Returned(spot_price * 100)
    ELSE IF StartsWith(selection, OTM_PREFIX) THEN
        LET pct == ParseFloat(RemovePercent(SplitField1(selection)))
        IN  IF pct.raised THEN ValueError
            ELSE IF option_type = CALL
                 THEN Returned(spot_price * (100 + pct.value))
                 ELSE Returned(spot_price * (100 - pct.value))
    ELSE IF StartsWith(selection, ITM_PREFIX) THEN
        LET pct == ParseFloat(RemovePercent(SplitField1(selection)))
        IN  IF pct.raised THEN ValueError
            ELSE IF option_type = CALL
                 THEN Returned(spot_price * (100 - pct.value))
                 ELSE Returned(spot_price * (100 + pct.value))
    ELSE LET abs == ParseFloat(selection)
         IN  IF abs.raised THEN Returned(spot_price * 100)
             ELSE Returned(abs.value * 10000)

\* mutant: the OTM offset of a put taken upwards, as for a call
LegStrike_PutOTMUp(spot_price, selection, option_type) ==
    IF selection = ATM THEN Returned(spot_price * 100)
    ELSE IF StartsWith(selection, OTM_PREFIX) THEN
        LET pct == ParseFloat(RemovePercent(SplitField1(selection)))
        IN  IF pct.raised THEN ValueError
            ELSE Returned(spot_price * (100 + pct.value))
    ELSE IF StartsWith(selection, ITM_PREFIX) THEN
        LET pct == ParseFloat(RemovePercent(SplitField1(selection)))
        IN  IF pct.raised THEN ValueError
            ELSE IF option_type = CALL
                 THEN Returned(spot_price * (100 - pct.value))
                 ELSE Returned(spot_price * (100 + pct.value))
    ELSE LET abs == ParseFloat(selection)
         IN  IF abs.raised THEN Returned(spot_price * 100)
             ELSE Returned(abs.value * 10000)

\* core/options_engine.py: the if/elif chain of _calculate_strikes for one
\* leg, before round(strike, 2)
LegStrike(spot_price, selection, option_type) ==
    IF selection = ATM THEN Returned(spot_price * 100)
    ELSE IF StartsWith(selection, OTM_PREFIX) THEN
        LET pct == ParseFloat(RemovePercent(SplitField1(selection)))
        IN  IF pct.raised THEN ValueError
            ELSE IF option_type = CALL
                 THEN Returned(spot_price * (100 + pct.value))
                 ELSE Returned(spot_price * (100 - pct.value))
    ELSE IF StartsWith(selection, ITM_PREFIX) THEN
        LET pct == ParseFloat(RemovePercent(SplitField1(selection)))
        IN  IF pct.raised THEN ValueError
            ELSE IF option_type = CALL
                 THEN Returned(spot_price * (100 - pct.value))
                 ELSE Returned(spot_price * (100 + pct.value))
    ELSE LET abs == ParseFloat(selection)
         IN  IF abs.raised THEN Returned(spot_price * 100)
             ELSE Returned(abs.value * 10000)

\* round(strike, 2): the nearest cent.  The code rounds a binary double, in
\* which a decimal tie (x.xx5) is not exact, so that a tie may go to either
\* neighbouring cent: both are possible results.
Round2(x) ==
    IF x % 100 = 50 THEN {x \div 100, x \div 100 + 1} ELSE {(x + 50) \div 100}

\* self.config.strike_selection.get(f"leg_{i}", leg.strike_selection),
\* i counted from 0 as in the code; legs are indexed from 1 in the model
SelectionOf(strike_selection, legs, i) ==
    IF i \in DOMAIN strike_selection
    THEN strike_selection[i]
    ELSE legs[i + 1].strike_selection

\* the lists of n values, the i-th taken from sets[i]
RECURSIVE Lists(_, _)
Lists(sets, n) ==
    IF n = 0 THEN {<<>>}
    ELSE {Append(front, x) : front \in Lists(sets, n - 1), x \in sets[n]}

\* _calculate_strikes: raised when a leg's selection raises, otherwise the
\* possible lists of rounded strikes
calculate_strikes(spot_price, legs, strike_selection) ==
    LET exact == [n \in 1..Len(legs) |->
                    LegStrike(spot_price, SelectionOf(strike_selection, legs, n - 1),
                              legs[n].option_type)]
    IN  IF \E n \in 1..Len(legs) : exact[n].raised
        THEN [raised |-> TRUE, strikes |-> {}]
        ELSE [raised |-> FALSE,
              strikes |-> Lists([n \in 1..Len(legs) |-> Round2(exact[n].value)],
                                Len(legs))]

---------------------------------------------------------------------------
(* core/pricing/black_scholes.py.  Spot and strike are in cents, T in days *)
(* (T/365 years), sigma in percent, r in per mille; a premium is in        *)
(* hundredths of a cent per share (the 4 decimals the trade log keeps).    *)
(* exp, log and the normal distribution are not computed: Discounted and   *)
(* TimeValue stand for K*e^(-rT) and for the closed form's excess over the *)
(* discounted intrinsic value.  They are functions of the same arguments,  *)
(* so equal inputs give equal prices and put-call parity holds; the three  *)
(* branches are the code's.                                                *)

\* K * exp(-r * T), first order in r*T
Discounted(K, T, r) == K * 100 - (K * r * T) \div (10 * 365)

\* closed form minus discounted intrinsic value: positive, growing with
\* sigma and T, shrinking with the distance of the spot from the strike
TimeValue(S, K, T, sigma) ==
    (sigma * T * 1000) \div (10 + (Max(S - K, K - S) \div 100))

\* T = 1 and sigma = 1 in the model's units (days, percent)
OneYear == 365
OneSigma == 100

\* the closed form of lines 65-72 and 124-132
closed_form(S, K, T, r, sigma, option_type) ==
    (IF option_type = CALL
     THEN Max(S * 100 - Discounted(K, T, r), 0)
     ELSE Max(Discounted(K, T, r) - S * 100, 0)) + TimeValue(S, K, T, sigma)

\* max(S - K, 0) for a call, max(K - S, 0) for a put
expired_price(S, K, option_type) ==
    IF option_type = CALL THEN Max(S - K, 0) * 100 ELSE Max(K - S, 0) * 100

\* max(S - K * exp(-r * T), 0) for a call, the mirror image for a put
zero_vol_price(S, K, T, r, option_type) ==
    IF option_type = CALL
    THEN Max(S * 100 - Discounted(K, T, r), 0)
    ELSE Max(Discounted(K, T, r) - S * 100, 0)

\* black_scholes_price (lines 50-82): the OptionPrice returned
black_scholes_price(S, K, T, r, sigma, option_type) ==
    IF T <= 0
    THEN [price |-> expired_price(S, K, option_type),
          intrinsic_value |-> expired_price(S, K, option_type),
          time_value |-> 0]
    ELSE IF sigma <= 0
    THEN [price |-> zero_vol_price(S, K, T, r, option_type),
          intrinsic_value |-> zero_vol_price(S, K, T, r, option_type),
          time_value |-> 0]
    ELSE LET price == closed_form(S, K, T, r, sigma, option_type)
             intrinsic == expired_price(S, K, option_type)
         IN  [price |-> Max(price, 0),
              intrinsic_value |-> intrinsic,
              time_value |-> Max(price - intrinsic, 0)]

\* the zero-volatility value written over expired elements as well
black_scholes_vectorized_ZeroVolOverExpired(S, K, T, r, sigma, option_type) ==
    Max(IF sigma <= 0 THEN zero_vol_price(S, K, T, r, option_type)
        ELSE IF T <= 0 THEN expired_price(S, K, option_type)
        ELSE closed_form(S, K, T, r, sigma, option_type), 0)

\* black_scholes_vectorized (lines 110-143), one element of the arrays: the
\* closed form is evaluated on T_safe and sigma_safe and then overwritten
\* where a mask holds
black_scholes_vectorized(S, K, T, r, sigma, option_type) ==
    LET expired_mask == T <= 0
        zero_vol_mask == sigma <= 0
        T_safe == IF expired_mask \/ zero_vol_mask THEN OneYear ELSE T
        sigma_safe == IF zero_vol_mask THEN OneSigma ELSE sigma
        prices == closed_form(S, K, T_safe, r, sigma_safe, option_type)
        expired_applied ==
            IF expired_mask THEN expired_price(S, K, option_type) ELSE prices
        zero_vol_applied ==
            IF zero_vol_mask /\ ~expired_mask
            THEN zero_vol_price(S, K, T, r, option_type)
            ELSE expired_applied
    IN  Max(zero_vol_applied, 0)

\* black_scholes_vectorized on arrays S, T and sigma of one length: numpy
\* evaluates every expression above element by element
black_scholes_vectorized_arrays(S, K, T, r, sigma, option_type) ==
    [i \in 1..Len(S) |->
        black_scholes_vectorized(S[i], K, T[i], r, sigma[i], option_type)]

---------------------------------------------------------------------------
(* core/options_engine.py: the helpers of OptionsBacktestEngine.run        *)

\* an undefined volatility value (numpy NaN)
NaN == -2

RECURSIVE ffill(_)
\* pandas Series.ffill: an undefined value takes the last defined one before it
ffill(series) ==
    IF Len(series) <= 1 THEN series
    ELSE LET front == ffill(SubSeq(series, 1, Len(series) - 1))
             last == series[Len(series)]
         IN  Append(front, IF last = NaN THEN front[Len(front)] ELSE last)

RECURSIVE bfill(_)
\* pandas Series.bfill: an undefined value takes the next defined one after it
bfill(series) ==
    IF Len(series) <= 1 THEN series
    ELSE LET rest == bfill(Tail(series))
         IN  <<IF series[1] = NaN THEN rest[1] ELSE series[1]>> \o rest

full_like(series, value) == [i \in 1..Len(series) |-> value]

\* 0.3, the volatility used when the whole series is undefined (percent)
DefaultVolatility == 30

\* the filled series used even when a fixed volatility is configured
volatility_of_SeriesKept(config, volatility_data) ==
    LET filled == bfill(ffill(volatility_data))
    IN  IF \A i \in 1..Len(filled) : filled[i] = NaN
        THEN full_like(filled, DefaultVolatility)
        ELSE filled

\* lines 80-88: the volatility array the run prices with
volatility_of(config, volatility_data) ==
    LET filled == bfill(ffill(volatility_data))
        volatility == IF \A i \in 1..Len(filled) : filled[i] = NaN
                      THEN full_like(filled, DefaultVolatility)
                      ELSE filled
    IN  IF config.volatility_model = "fixed" /\ config.fixed_volatility # None
        THEN full_like(volatility, config.fixed_volatility)
        ELSE volatility

RECURSIVE net_premium_upto(_, _, _)
net_premium_upto(legs, premiums, n) ==
    IF n = 0 THEN 0
    ELSE net_premium_upto(legs, premiums, n - 1)
           + (IF legs[n].position_type = LONG
              THEN -(premiums[n] * legs[n].quantity)
              ELSE premiums[n] * legs[n].quantity)

RECURSIVE paid_upto(_, _, _)
paid_upto(legs, premiums, n) ==
    IF n = 0 THEN 0
    ELSE paid_upto(legs, premiums, n - 1) - premiums[n] * legs[n].quantity

\* every leg's premium counted as paid, whatever its position type
calculate_net_premium_AllPaid(legs, premiums) == paid_upto(legs, premiums, Len(legs))

\* _calculate_net_premium (negative = debit, positive = credit)
calculate_net_premium(legs, premiums) == net_premium_upto(legs, premiums, Len(legs))

RECURSIVE get_net_premium_upto(_, _, _)
get_net_premium_upto(legs, premiums, n) ==
    IF n = 0 THEN 0
    ELSE LET net == get_net_premium_upto(legs, premiums, n - 1)
         IN  IF legs[n].position_type = LONG
             THEN net - premiums[n] * legs[n].quantity
             ELSE net + premiums[n] * legs[n].quantity

\* strategies/base.py: BaseStrategy.get_net_premium
get_net_premium(strategy_type, premiums) ==
    get_net_premium_upto(Legs(strategy_type), premiums, Len(Legs(strategy_type)))

RECURSIVE is_debit_upto(_, _, _)
is_debit_upto(legs, premiums, n) ==
    IF n = 0 THEN 0
    ELSE LET net == is_debit_upto(legs, premiums, n - 1)
         IN  IF legs[n].position_type = LONG
             THEN net - premiums[n] * legs[n].quantity
             ELSE net + premiums[n] * legs[n].quantity

\* strategies/base.py: BaseStrategy.is_debit_strategy
is_debit_strategy(strategy_type, premiums) ==
    is_debit_upto(Legs(strategy_type), premiums, Len(Legs(strategy_type))) < 0

\* round(x / unit) to the nearest integer; a value half way between two
\* integers may go either way (the operand is a binary float)
RoundTo(x, unit) ==
    IF 2 * (x % unit) < unit THEN {x \div unit}
    ELSE IF 2 * (x % unit) > unit THEN {x \div unit + 1}
    ELSE {x \div unit, x \div unit + 1}

\* line 129: round(net_premium * 100 * position_size, 2), in cents, for a
\* net premium in a unit of which units_per_cent make a cent
open_net_premium(net_premium, position_size, units_per_cent) ==
    RoundTo(net_premium * 100 * position_size, units_per_cent)

\* _calculate_current_premiums
calculate_current_premiums(current_price, strikes, T, r, current_vol, legs) ==
    [n \in 1..Len(legs) |->
        IF T > 0
        THEN black_scholes_vectorized(current_price, strikes[n], T, r, current_vol,
                                      legs[n].option_type)
        ELSE IF legs[n].option_type = CALL
             THEN Max(current_price - strikes[n], 0) * 100
             ELSE Max(strikes[n] - current_price, 0) * 100]

RECURSIVE option_pnl_upto(_, _, _, _)
option_pnl_upto(legs, entry_premiums, current_premiums, n) ==
    IF n = 0 THEN 0
    ELSE option_pnl_upto(legs, entry_premiums, current_premiums, n - 1)
           + (IF legs[n].position_type = LONG
              THEN (current_premiums[n] - entry_premiums[n]) * legs[n].quantity
              ELSE -((current_premiums[n] - entry_premiums[n]) * legs[n].quantity))

\* _calculate_option_pnl
calculate_option_pnl(legs, entry_premiums, current_premiums) ==
    option_pnl_upto(legs, entry_premiums, current_premiums, Len(legs))

\* the days elapsed counted from 1 on the entry day
dte_of_FromOne(days_to_expiration, day_idx) ==
    Max(days_to_expiration - (day_idx + 1), 0)

\* line 147: dte = max(days_to_expiration - days_elapsed, 0)
dte_of(days_to_expiration, day_idx) == Max(days_to_expiration - day_idx, 0)

\* Greeks calculated and stored on the expiry day as well
GreeksStored_AtExpiry(T) == T >= 0

\* line 182: Greeks are calculated and stored if T > 0
GreeksStored(T) == T > 0

\* where the for loop of line 140 goes after the iteration day_idx over n
\* dates, and which ignores the break of line 207
AfterIteration_NoBreak(dte, day_idx, n) ==
    IF day_idx + 1 < n THEN "loop" ELSE "stats"

\* where the for loop of line 140 goes after the iteration day_idx over n
\* dates: out of the loop on the break of line 207 and after the last date
AfterIteration(dte, day_idx, n) ==
    IF dte = 0 THEN "stats"
    ELSE IF day_idx + 1 < n THEN "loop" ELSE "stats"

SeqMax(values) == CHOOSE v \in {values[i] : i \in 1..Len(values)} :
                      \A i \in 1..Len(values) : values[i] <= v

SeqMin(values) == CHOOSE v \in {values[i] : i \in 1..Len(values)} :
                      \A i \in 1..Len(values) : v <= values[i]

\* _calculate_max_drawdown with the peak of the whole series in place of the
\* running peak
calculate_max_drawdown_WholePeak(pnl_values) ==
    IF pnl_values = <<>> THEN 0
    ELSE LET peak == [i \in 1..Len(pnl_values) |-> SeqMax(pnl_values)]
             drawdown == [i \in 1..Len(pnl_values) |-> pnl_values[i] - peak[i]]
         IN  -SeqMin(drawdown)

\* _calculate_max_drawdown: the largest fall of the P&L below its running peak
calculate_max_drawdown(pnl_values) ==
    IF pnl_values = <<>> THEN 0
    ELSE LET peak == [i \in 1..Len(pnl_values) |-> SeqMax(SubSeq(pnl_values, 1, i))]
             drawdown == [i \in 1..Len(pnl_values) |-> pnl_values[i] - peak[i]]
         IN  -SeqMin(drawdown)

\* _calculate_win_rate
calculate_win_rate(final_pnl) == IF final_pnl > 0 THEN 100 ELSE 0

\* round(final_pnl / initial_capital * 100, 2), in hundredths of a percent;
\* a quotient half way between two of them may be rounded either way
\* (initial_capital is a whole number of dollars)
total_return_of(final_pnl, initial_capital) ==
    LET dollars == initial_capital \div 100
        q == (final_pnl * 100) \div dollars
        rem == (final_pnl * 100) % dollars
    IN  IF 2 * rem < dollars THEN {q}
        ELSE IF 2 * rem > dollars THEN {q + 1}
        ELSE {q, q + 1}

\* _calculate_stats: the breakevens of the strategy for the entry premiums,
\* computed in hundredths of a cent, then rounded to cents
breakeven_points_of(strategy_type, strikes, entry_premiums, entry_spot) ==
    LET breakevens ==
            get_breakeven(strategy_type, [n \in 1..Len(strikes) |-> strikes[n] * 100],
                          entry_premiums,
                          IF StockLegOf(strategy_type).present THEN entry_spot * 100 ELSE None)
    IN  Lists([n \in 1..Len(breakevens) |-> Round2(breakevens[n])], Len(breakevens))

\* the 100 points of np.linspace in _generate_payoff_diagram
PayoffPoints == 100

\* np.linspace(start, stop, num): num values from start to stop, each
\* multiplied by num - 1 so that it is a whole number
linspace(start, stop, num) ==
    [k \in 1..num |-> (num - 1) * start + (k - 1) * (stop - start)]

\* round(x / unit) for a quotient that is never half way between two
\* integers: a grid price k/99 of the way between two multiples of 0.4 cent
\* is a multiple of 0.4 cent when it is a whole number of hundredths of a
\* cent, and twice a payoff in 99ths of a cent is never an odd multiple of 99
nearest(x, unit) == (2 * x + unit) \div (2 * unit)

\* _generate_payoff_diagram with the price range taken from the spot alone
generate_payoff_diagram_SpotRange(strategy_type, position_size, spot_price, strikes, premiums) ==
    LET scale == PayoffPoints - 1
        price_range == linspace(spot_price * 80, spot_price * 120, PayoffPoints)
    IN  [k \in 1..PayoffPoints |->
            [price |-> nearest(price_range[k], scale * 100),
             payoff |-> nearest(
                 calculate_payoff(strategy_type, price_range[k],
                     [n \in 1..Len(strikes) |-> strikes[n] * 100 * scale],
                     [n \in 1..Len(premiums) |-> premiums[n] * scale],
                     IF StockLegOf(strategy_type).present
                     THEN spot_price * 100 * scale ELSE None)
                   * position_size, scale)]]

\* _generate_payoff_diagram: spot_price and strikes in cents, premiums in
\* hundredths of a cent.  The grid prices are kept in 99ths of a hundredth
\* of a cent, the unit in which np.linspace's 100 values are whole numbers;
\* calculate_payoff is evaluated at the unrounded grid price, with strikes,
\* premiums and entry price in the same unit.  The point holds round(price,
\* 2) and round(payoff * 100 * position_size, 2), both in cents.
generate_payoff_diagram(strategy_type, position_size, spot_price, strikes, premiums) ==
    LET scale == PayoffPoints - 1
        levels == strikes \o <<spot_price>>
        min_price == SeqMin(levels) * 80
        max_price == SeqMax(levels) * 120
        price_range == linspace(min_price, max_price, PayoffPoints)
    IN  [k \in 1..PayoffPoints |->
            [price |-> nearest(price_range[k], scale * 100),
             payoff |-> nearest(
                 calculate_payoff(strategy_type, price_range[k],
                     [n \in 1..Len(strikes) |-> strikes[n] * 100 * scale],
                     [n \in 1..Len(premiums) |-> premiums[n] * scale],
                     IF StockLegOf(strategy_type).present
                     THEN spot_price * 100 * scale ELSE None)
                   * position_size, scale)]]

\* the 10000.0 of the request's default initial_capital, in cents
InitialCapital == 1000000

\* risk_free_rate: 0.045, in per mille
RiskFreeRate == 45

\* the request of the endpoint when run is called without it
NoRequest ==
    [strategy_type |-> "long_call", days_to_expiration |-> 0, position_size |-> 0,
     leg_configs |-> <<>>, volatility_model |-> "historical", fixed_volatility |-> None]

\* the config before it is created
NoConfig ==
    [strategy_type |-> "long_call", days_to_expiration |-> 0, position_size |-> 0,
     strike_selection |-> <<>>, volatility_model |-> "historical",
     fixed_volatility |-> None, initial_capital |-> 0, risk_free_rate |-> 0,
     roll_before_expiry |-> 0]

\* routers/options.py lines 218-221
FixedVolatilityMissing(request) ==
    request.volatility_model = "fixed" /\ request.fixed_volatility = None

\* routers/options.py line 240, accepting a series one observation short
InsufficientData_OneShort(price_data, request) ==
    Len(price_data) < request.days_to_expiration - 1

\* routers/options.py line 240
InsufficientData(price_data, request) ==
    Len(price_data) < request.days_to_expiration

\* routers/options.py lines 247-265: the config created from the request
config_of(request) ==
    [strategy_type |-> request.strategy_type,
     days_to_expiration |-> request.days_to_expiration,
     position_size |-> request.position_size,
     strike_selection |-> request.leg_configs,
     volatility_model |-> request.volatility_model,
     fixed_volatility |-> request.fixed_volatility,
     initial_capital |-> InitialCapital,
     risk_free_rate |-> RiskFreeRate,
     roll_before_expiry |-> 0]

---------------------------------------------------------------------------
(* routers/backtest.py, routers/history.py: the weight validation.         *)
(* A weight is in thousandths.                                             *)

RECURSIVE sum(_)
sum(weights) == IF weights = <<>> THEN 0 ELSE weights[1] + sum(Tail(weights))

\* len(tickers) != len(weights)
LengthMismatch(portfolio) == Len(portfolio.tickers) # Len(portfolio.weights)

\* a tolerance of 0.05 instead of 0.01
WeightSumInTolerance_Wide(weight_sum) == 950 <= weight_sum /\ weight_sum <= 1050

\* 0.99 <= weight_sum <= 1.01
WeightSumInTolerance(weight_sum) == 990 <= weight_sum /\ weight_sum <= 1010

\* the outcomes of 0.99 <= sum(weights) <= 1.01 in floating point: the sum
\* of two or more weights that is 0.99 or 1.01 in exact arithmetic can fall
\* on either side of the bound
WeightSumAccepted(weights) ==
    IF Len(weights) >= 2 /\ sum(weights) \in {990, 1010}
    THEN {TRUE, FALSE}
    ELSE {WeightSumInTolerance(sum(weights))}

---------------------------------------------------------------------------
(* Each specification exercises one part of the program; the variables of  *)
(* the other parts stay at these values.                                   *)

IdleCatalog ==
    /\ cat_pc = "idle"
    /\ cat_strategy = "long_call"
    /\ cat_strikes = <<>>
    /\ cat_premiums = <<>>
    /\ cat_entry = None
    /\ cat_payoff = <<>>
    /\ cat_max_profit = 0
    /\ cat_max_loss = 0
    /\ cat_breakeven = <<>>

IdleStrikes ==
    /\ k_pc = "idle"
    /\ k_strategy = "long_call"
    /\ k_spot = 0
    /\ k_selection = <<>>
    /\ k_strikes = <<>>
    /\ k_fetcher = <<>>

IdleOptions ==
    /\ o_pc = "idle"
    /\ o_caller = "direct"
    /\ o_request = NoRequest
    /\ o_config = NoConfig
    /\ o_price_data = <<>>
    /\ o_volatility_data = <<>>
    /\ o_fetches = 0
    /\ o_runs = 0
    /\ o_status = 0
    /\ o_volatility = <<>>
    /\ o_strikes = <<>>
    /\ o_entry_premiums = <<>>
    /\ o_day_idx = 0
    /\ o_daily_pnl = <<>>
    /\ o_greeks_series = <<>>
    /\ o_trades = <<>>
    /\ o_stats = <<>>
    /\ o_payoff_diagram = <<>>

IdleFunctions ==
    /\ f_pc = "idle"
    /\ f_in = <<>>
    /\ f_out = <<>>

IdlePortfolio ==
    /\ p_pc = "idle"
    /\ p_endpoint = "backtest"
    /\ p_authenticated = FALSE
    /\ p_portfolios = <<>>
    /\ p_save_to_history = FALSE
    /\ p_status = 0
    /\ p_detail = "none"
    /\ p_fetches = 0
    /\ p_engine_runs = 0
    /\ p_history = 0

---------------------------------------------------------------------------
(* Specification SpecStrikes: the strike resolution applied to bounded     *)
(* inputs (strategy, entry spot, per-leg overrides)                        *)

MaxSpotOffset == 12

\* entry spot prices from $1.00 upwards, cent by cent (1.10 gives a tie)
StrikeSpots == 100..(100 + MaxSpotOffset)

SelectionStrings ==
    {ATM, OTM_5, OTM_10, ITM_5,
     <<"2">>,                                   \* absolute strike 2.00
     <<"a", "t", "m">>,                         \* neither a rule nor a number
     <<"I", "T", "M", "_", "5", "_", "7">>,     \* second "_" ends the percentage
     <<"O", "T", "M", "_", "x", "%">>}          \* the percentage is not a number

MaxOverrides == 2

\* the dicts with at most MaxOverrides keys among leg_0 .. leg_(n-1)
SelectionDicts(n) ==
    UNION {[keys -> SelectionStrings] :
              keys \in {ks \in SUBSET (0..(n - 1)) : Cardinality(ks) <= MaxOverrides}}

InitStrikes ==
    /\ k_pc = "input"
    /\ k_strategy \in STRATEGY_REGISTRY
    /\ k_spot \in StrikeSpots
    /\ k_selection \in SelectionDicts(Len(Legs(k_strategy)))
    /\ k_strikes = <<>>
    /\ k_fetcher = <<>>
    /\ IdleCatalog
    /\ IdleOptions
    /\ IdlePortfolio
    /\ IdleFunctions

FetcherStrikes ==
    [n \in 1..Len(Legs(k_strategy)) |->
        calculate_strike_from_selection(
            k_spot, SelectionOf(k_selection, Legs(k_strategy), n - 1),
            Legs(k_strategy)[n].option_type)]

\* _calculate_strikes returns the strikes
ResolveStrikes ==
    /\ k_pc = "input"
    /\ LET r == calculate_strikes(k_spot, Legs(k_strategy), k_selection)
       IN  /\ ~r.raised
           /\ k_strikes' \in r.strikes
    /\ k_pc' = "resolved"
    /\ k_fetcher' = FetcherStrikes
    /\ UNCHANGED <<k_strategy, k_spot, k_selection>>
    /\ UNCHANGED <<catVars, oVars, pVars, fVars>>

\* _calculate_strikes raises ValueError
ResolveStrikesRaises ==
    /\ k_pc = "input"
    /\ calculate_strikes(k_spot, Legs(k_strategy), k_selection).raised
    /\ k_pc' = "raised"
    /\ k_fetcher' = FetcherStrikes
    /\ UNCHANGED <<k_strategy, k_spot, k_selection, k_strikes>>
    /\ UNCHANGED <<catVars, oVars, pVars, fVars>>

NextStrikes == ResolveStrikes \/ ResolveStrikesRaises

SpecStrikes == InitStrikes /\ [][NextStrikes]_vars

---------------------------------------------------------------------------
(* Claims about the strike resolution                                      *)

\* strategies with at least two option legs
MultiLeg(s) == Len(Legs(s)) >= 2

DefaultRulesResolved ==
    k_pc = "resolved" /\ DOMAIN k_selection = {} /\ MultiLeg(k_strategy)

Ascending(ks) == \A n \in 1..(Len(ks) - 1) : ks[n] <= ks[n + 1]

StrictlyAscending(ks) == \A n \in 1..(Len(ks) - 1) : ks[n] < ks[n + 1]

StrictlyDescending(ks) == \A n \in 1..(Len(ks) - 1) : ks[n] > ks[n + 1]

\* C9 (as claimed): for every multi-leg strategy and entry spot >= 1 the
\* strikes resolved from the default rules are in ascending order in leg
\* declaration order, strictly increasing for the iron condor.
C9_DefaultStrikesAscending ==
    DefaultRulesResolved =>
        /\ Ascending(k_strikes)
        /\ k_strategy = "iron_condor" => StrictlyAscending(k_strikes)

\* C9 (amended): the default rules resolve the strikes in the order the
\* strategy's payoff formula assumes: ascending for every multi-leg strategy
\* but the bear put spread and the strangle, whose two strikes come out in
\* descending order (K1 > K2); strictly increasing for the iron condor.
C9_DefaultStrikesInAssumedOrder ==
    DefaultRulesResolved =>
        /\ k_strategy \notin {"bear_put_spread", "strangle"} => Ascending(k_strikes)
        /\ k_strategy \in {"bear_put_spread", "strangle"} => StrictlyDescending(k_strikes)
        /\ k_strategy = "iron_condor" => StrictlyAscending(k_strikes)

\* C9 witness: the bear put spread resolved from its default rules, the long
\* put's strike above the short put's
C9_Witness ==
    /\ DefaultRulesResolved
    /\ k_strategy = "bear_put_spread"
    /\ k_strikes[1] > k_strikes[2]

\* a selection of the form <prefix>n% with n a number
IsPercentRule(selection, prefix) ==
    StartsWith(selection, prefix)
      /\ ~ParseFloat(RemovePercent(SplitField1(selection))).raised

RulePercent(selection) == ParseFloat(RemovePercent(SplitField1(selection))).value

\* the strike the claim describes, before rounding (hundredths of a cent)
ClaimedStrike(spot, selection, option_type) ==
    IF selection = ATM THEN spot * 100
    ELSE IF IsPercentRule(selection, OTM_PREFIX) THEN
        (IF option_type = CALL
         THEN spot * (100 + RulePercent(selection))
         ELSE spot * (100 - RulePercent(selection)))
    ELSE IF IsPercentRule(selection, ITM_PREFIX) THEN
        (IF option_type = CALL
         THEN spot * (100 - RulePercent(selection))
         ELSE spot * (100 + RulePercent(selection)))
    ELSE IF ~ParseFloat(selection).raised THEN ParseFloat(selection).value * 10000
    ELSE spot * 100

\* C10 (as claimed): every leg is resolved from its override when present and
\* from its declared rule otherwise: ATM, OTM_n%, ITM_n% and a numeric string
\* as described, any other string giving the entry spot; the result before
\* rounding equals calculate_strike_from_selection for the same input.
C10_StrikeResolution ==
    k_pc \in {"resolved", "raised"} =>
        /\ k_pc = "resolved"
        /\ \A n \in 1..Len(Legs(k_strategy)) :
              LET claimed == ClaimedStrike(
                      k_spot, SelectionOf(k_selection, Legs(k_strategy), n - 1),
                      Legs(k_strategy)[n].option_type)
              IN  /\ k_strikes[n] \in Round2(claimed)
                  /\ k_fetcher[n] = Returned(claimed)

---------------------------------------------------------------------------
(* Specification SpecCatalog: the catalog's functions applied to bounded   *)
(* inputs.  One evaluation computes the payoff over a grid of spot prices  *)
(* (as _generate_payoff_diagram does), the two bounds and the breakevens.  *)

NumStrikes == 5

NumPremiums == 2

NumSpots == 10

StrikeSet == {9000 + 500 * k : k \in 0..(NumStrikes - 1)}

PremiumSet == {100 + 200 * k : k \in 0..(NumPremiums - 1)}

SpotGrid == {0} \cup {8000 + 500 * k : k \in 0..(NumSpots - 1)}

EntrySet == {9500, 10000}

InitCatalog ==
    /\ cat_pc = "input"
    /\ cat_strategy \in STRATEGY_REGISTRY
    /\ cat_strikes \in [1..Len(Legs(cat_strategy)) -> StrikeSet]
    /\ cat_premiums \in [1..Len(Legs(cat_strategy)) -> PremiumSet]
    /\ cat_entry \in (IF StockLegOf(cat_strategy).present THEN EntrySet ELSE {}) \cup {None}
    /\ cat_payoff = <<>>
    /\ cat_max_profit = 0
    /\ cat_max_loss = 0
    /\ cat_breakeven = <<>>
    /\ IdleStrikes
    /\ IdleOptions
    /\ IdlePortfolio
    /\ IdleFunctions

EvaluateStrategy ==
    /\ cat_pc = "input"
    /\ cat_pc' = "evaluated"
    /\ cat_payoff' = [spot \in SpotGrid |->
            calculate_payoff(cat_strategy, spot, cat_strikes, cat_premiums, cat_entry)]
    /\ cat_max_profit' = get_max_profit(cat_strategy, cat_strikes, cat_premiums, cat_entry)
    /\ cat_max_loss' = get_max_loss(cat_strategy, cat_strikes, cat_premiums, cat_entry)
    /\ cat_breakeven' = get_breakeven(cat_strategy, cat_strikes, cat_premiums, cat_entry)
    /\ UNCHANGED <<cat_strategy, cat_strikes, cat_premiums, cat_entry>>
    /\ UNCHANGED <<kVars, oVars, pVars, fVars>>

NextCatalog == EvaluateStrategy

SpecCatalog == InitCatalog /\ [][NextCatalog]_vars

---------------------------------------------------------------------------
(* Claims about the strategy catalog                                       *)

\* intrinsic value of one option leg at expiry
Intrinsic(leg, spot, K) ==
    IF leg.option_type = CALL THEN Max(spot - K, 0) ELSE Max(K - spot, 0)

RECURSIVE LegSum(_, _, _, _, _)
\* sum over legs 1..n of +/- quantity * (intrinsic - premium)
LegSum(legs, n, spot, strikes, premiums) ==
    IF n = 0 THEN 0
    ELSE LET leg == legs[n]
             v == leg.quantity * (Intrinsic(leg, spot, strikes[n]) - premiums[n])
         IN  LegSum(legs, n - 1, spot, strikes, premiums)
               + (IF leg.position_type = LONG THEN v ELSE -v)

\* the leg-by-leg payoff the spec describes, with the long stock leg's
\* (spot - entry_stock_price)
LegByLegPayoff(s, spot, strikes, premiums, entry) ==
    LegSum(Legs(s), Len(Legs(s)), spot, strikes, premiums)
      + (IF StockLegOf(s).present THEN spot - entry ELSE 0)

EntrySupplied == StockLegOf(cat_strategy).present => cat_entry # None

\* C6 (as claimed): for every strategy, spot, strikes and premiums,
\* calculate_payoff equals the leg-by-leg sum, leg i using strikes[i] and
\* premiums[i]; Long Call K = 100, premium 5 pays 15 at 120, -5 at 90, 0 at 105.
C6_PayoffIsLegSum ==
    /\ LongCall_calculate_payoff(12000, <<10000>>, <<500>>, None) = 1500
    /\ LongCall_calculate_payoff(9000, <<10000>>, <<500>>, None) = -500
    /\ LongCall_calculate_payoff(10500, <<10000>>, <<500>>, None) = 0
    /\ (cat_pc = "evaluated" /\ EntrySupplied) =>
          \A spot \in SpotGrid :
              cat_payoff[spot] =
                  LegByLegPayoff(cat_strategy, spot, cat_strikes, cat_premiums, cat_entry)

IronCondorNetCredit ==
    cat_premiums[2] + cat_premiums[3] - cat_premiums[1] - cat_premiums[4]

\* C7: IronCondor.get_max_profit is the net credit P2 + P3 - P1 - P4 and
\* get_max_loss is (K2 - K1) - net credit; strikes [90, 95, 105, 110] with
\* net credit 2 give max loss 3.
C7_IronCondorMaxProfitLoss ==
    (cat_pc = "evaluated" /\ cat_strategy = "iron_condor") =>
        /\ cat_max_profit = IronCondorNetCredit
        /\ cat_max_loss = (cat_strikes[2] - cat_strikes[1]) - IronCondorNetCredit
        /\ (cat_strikes = <<9000, 9500, 10500, 11000>> /\ IronCondorNetCredit = 200)
              => cat_max_loss = 300

\* C7 witness: the iron condor [90, 95, 105, 110] with net credit 2 evaluated
C7_Witness ==
    /\ cat_pc = "evaluated"
    /\ cat_strategy = "iron_condor"
    /\ cat_strikes = <<9000, 9500, 10500, 11000>>
    /\ IronCondorNetCredit = 200
    /\ cat_max_loss = 300

\* the strike order each payoff formula assumes (comments of calculate_payoff)
StrikeOrderAssumed(s, strikes) ==
    CASE s = "bull_call_spread" -> strikes[1] < strikes[2]
      [] s = "bear_put_spread" -> strikes[1] > strikes[2]
      [] s = "straddle" -> strikes[1] = strikes[2]
      [] s = "strangle" -> strikes[1] > strikes[2]
      [] s = "iron_condor" ->
            strikes[1] < strikes[2] /\ strikes[2] < strikes[3] /\ strikes[3] < strikes[4]
      [] s = "iron_butterfly" ->
            strikes[1] < strikes[2] /\ strikes[2] = strikes[3] /\ strikes[3] < strikes[4]
      [] s = "butterfly_spread" -> strikes[1] < strikes[2] /\ strikes[2] < strikes[3]
      [] s = "collar" -> strikes[1] < strikes[2]
      [] OTHER -> TRUE

\* C8 (as claimed): with strikes in the assumed order and entry_stock_price
\* supplied for the stock-leg strategies, every payoff at a spot >= 0 is at
\* most get_max_profit and at least -get_max_loss whenever these are finite;
\* Long Call max profit and Short Call max loss are the infinity sentinel.
C8_PayoffWithinBounds ==
    /\ LongCall_get_max_profit(<<10000>>, <<500>>, None) = Inf
    /\ ShortCall_get_max_loss(<<10000>>, <<500>>, None) = Inf
    /\ (cat_pc = "evaluated" /\ EntrySupplied
          /\ StrikeOrderAssumed(cat_strategy, cat_strikes)) =>
          \A spot \in SpotGrid :
              /\ cat_max_profit # Inf => cat_payoff[spot] <= cat_max_profit
              /\ cat_max_loss # Inf => cat_payoff[spot] >= -cat_max_loss

---------------------------------------------------------------------------
(* Specification SpecOptions: one options backtest.  The caller is either  *)
(* the endpoint run_options_backtest, which validates the request, fetches *)
(* the data, creates the config and calls OptionsBacktestEngine.run, or    *)
(* code that calls run directly on a config and two series of its own.     *)
(* A date is the position of the day in the series, counted from 0.        *)

MaxDte == 3

MaxDays == 3

MaxRoll == 1

\* daily closes, in cents
PriceSet == {9500, 10500}

PositionSizes == {1, 2}

PriceSeries(lengths) == UNION {[1..n -> PriceSet] : n \in lengths}

\* the request's leg_configs: none, a rule for leg_0, a malformed rule for leg_0
LegConfigs ==
    {<<>>, [i \in {0} |-> OTM_10], [i \in {0} |-> <<"O", "T", "M", "_", "x", "%">>]}

Requests ==
    [strategy_type : STRATEGY_REGISTRY,
     days_to_expiration : 1..MaxDte,
     position_size : PositionSizes,
     leg_configs : LegConfigs,
     volatility_model : {"historical", "fixed"},
     fixed_volatility : {None, 25}]

\* what fetch_historical_data_for_options returns as volatility for n days:
\* a series without undefined values, 0.3 throughout when it had none defined
FetchedVolatilities(n) == {full_like([i \in 1..n |-> 0], DefaultVolatility),
                           [i \in 1..n |-> 15 + 5 * i]}

\* the volatility series a direct caller passes for n days
DirectVolatilities(n) ==
    {full_like([i \in 1..n |-> 0], NaN),
     [i \in 1..n |-> IF i = 1 THEN NaN ELSE 20],
     [i \in 1..n |-> IF i = 2 THEN NaN ELSE 10 + 10 * i],
     full_like([i \in 1..n |-> 0], 0)}

DirectConfigs ==
    {[strategy_type |-> st, days_to_expiration |-> d, position_size |-> 1,
      strike_selection |-> <<>>, volatility_model |-> vm[1], fixed_volatility |-> vm[2],
      initial_capital |-> InitialCapital, risk_free_rate |-> RiskFreeRate,
      roll_before_expiry |-> roll] :
        st \in STRATEGY_REGISTRY, d \in 1..MaxDte, roll \in 0..MaxRoll,
        vm \in {<<"historical", None>>, <<"historical", 25>>,
                <<"fixed", None>>, <<"fixed", 25>>}}

InitOptions ==
    /\ o_caller \in {"endpoint", "direct"}
    /\ IF o_caller = "endpoint"
       THEN /\ o_pc = "validate"
            /\ o_request \in Requests
            /\ o_config = NoConfig
            /\ o_price_data = <<>>
            /\ o_volatility_data = <<>>
       ELSE /\ o_pc = "run"
            /\ o_request = NoRequest
            /\ o_config \in DirectConfigs
            /\ o_price_data \in PriceSeries(0..MaxDays)
            /\ o_volatility_data \in DirectVolatilities(Len(o_price_data))
    /\ o_fetches = 0
    /\ o_runs = 0
    /\ o_status = 0
    /\ o_volatility = <<>>
    /\ o_strikes = <<>>
    /\ o_entry_premiums = <<>>
    /\ o_day_idx = 0
    /\ o_daily_pnl = <<>>
    /\ o_greeks_series = <<>>
    /\ o_trades = <<>>
    /\ o_stats = <<>>
    /\ o_payoff_diagram = <<>>
    /\ IdleCatalog
    /\ IdleStrikes
    /\ IdlePortfolio
    /\ IdleFunctions

runVars == <<o_volatility, o_strikes, o_entry_premiums, o_day_idx, o_daily_pnl,
             o_greeks_series, o_trades, o_stats, o_payoff_diagram>>

\* routers/options.py lines 217-225
ValidateVolatility ==
    /\ o_pc = "validate"
    /\ IF FixedVolatilityMissing(o_request)
       THEN o_pc' = "http_error" /\ o_status' = 400
       ELSE o_pc' = "fetch" /\ o_status' = o_status
    /\ UNCHANGED <<o_caller, o_request, o_config, o_price_data, o_volatility_data,
                   o_fetches, o_runs>>
    /\ UNCHANGED runVars
    /\ UNCHANGED <<catVars, kVars, pVars, fVars>>

\* routers/options.py lines 227-238: the fetch raises or returns the prices
\* of at least one day with their volatility
FetchHistoricalData ==
    /\ o_pc = "fetch"
    /\ o_fetches' = o_fetches + 1
    /\ \/ /\ o_pc' = "http_error"
          /\ o_status' = 400
          /\ UNCHANGED <<o_price_data, o_volatility_data>>
       \/ /\ o_pc' = "check"
          /\ o_price_data' \in PriceSeries(1..MaxDays)
          /\ o_volatility_data' \in FetchedVolatilities(Len(o_price_data'))
          /\ o_status' = o_status
    /\ UNCHANGED <<o_caller, o_request, o_config, o_runs>>
    /\ UNCHANGED runVars
    /\ UNCHANGED <<catVars, kVars, pVars, fVars>>

\* routers/options.py lines 240-265
CheckLength ==
    /\ o_pc = "check"
    /\ IF InsufficientData(o_price_data, o_request)
       THEN o_pc' = "http_error" /\ o_status' = 400 /\ o_config' = o_config
       ELSE o_pc' = "run" /\ o_status' = o_status /\ o_config' = config_of(o_request)
    /\ UNCHANGED <<o_caller, o_request, o_price_data, o_volatility_data, o_fetches, o_runs>>
    /\ UNCHANGED runVars
    /\ UNCHANGED <<catVars, kVars, pVars, fVars>>

\* an exception leaves run: the endpoint answers 500 (lines 271-275), a
\* direct caller gets the exception
Raised ==
    /\ o_pc' = (IF o_caller = "endpoint" THEN "http_error" ELSE "raised")
    /\ o_status' = (IF o_caller = "endpoint" THEN 500 ELSE o_status)

\* OptionsBacktestEngine.run lines 71-138: entry.  prices[0] raises on an
\* empty series, _calculate_strikes on a malformed percentage.
EngineRun ==
    /\ o_pc = "run"
    /\ o_runs' = o_runs + 1
    /\ LET legs == Legs(o_config.strategy_type)
           volatility == volatility_of(o_config, o_volatility_data)
           resolved == calculate_strikes(o_price_data[1], legs, o_config.strike_selection)
       IN  IF o_price_data = <<>> \/ resolved.raised
           THEN /\ Raised
                /\ UNCHANGED <<o_volatility, o_strikes, o_entry_premiums, o_trades>>
           ELSE \E strikes \in resolved.strikes :
                  LET entry_price == o_price_data[1]
                      T_entry == o_config.days_to_expiration
                      entry_premiums ==
                          [n \in 1..Len(legs) |->
                              black_scholes_vectorized(
                                  entry_price, strikes[n], T_entry,
                                  o_config.risk_free_rate, volatility[1],
                                  legs[n].option_type)]
                      net_premium == calculate_net_premium(legs, entry_premiums)
                  IN  \E recorded \in open_net_premium(
                                       net_premium, o_config.position_size, 100) :
                      /\ o_volatility' = volatility
                      /\ o_strikes' = strikes
                      /\ o_entry_premiums' = entry_premiums
                      /\ o_trades' = <<[date |-> 0, action |-> "OPEN",
                                        strategy |-> o_config.strategy_type,
                                        strikes |-> strikes,
                                        premiums |-> entry_premiums,
                                        net_premium |-> recorded,
                                        spot_price |-> entry_price]>>
                      /\ o_pc' = "loop"
                      /\ o_status' = o_status
    /\ UNCHANGED <<o_caller, o_request, o_config, o_price_data, o_volatility_data, o_fetches>>
    /\ UNCHANGED <<o_day_idx, o_daily_pnl, o_greeks_series, o_stats, o_payoff_diagram>>
    /\ UNCHANGED <<catVars, kVars, pVars, fVars>>

\* OptionsBacktestEngine.run lines 140-207: one iteration of the daily loop
DailyMarkToMarket ==
    /\ o_pc = "loop"
    /\ LET legs == Legs(o_config.strategy_type)
           stock_leg == StockLegOf(o_config.strategy_type)
           day_idx == o_day_idx
           current_date == day_idx
           current_price == o_price_data[day_idx + 1]
           current_vol == o_volatility[day_idx + 1]
           entry_price == o_price_data[1]
           dte == dte_of(o_config.days_to_expiration, day_idx)
           T == dte
           current_premiums ==
               calculate_current_premiums(current_price, o_strikes, T,
                                          o_config.risk_free_rate, current_vol, legs)
           option_pnl == calculate_option_pnl(legs, o_entry_premiums, current_premiums)
           stock_pnl == IF stock_leg.present
                        THEN IF stock_leg.position_type = SHORT
                             THEN -((current_price - entry_price) * stock_leg.quantity)
                             ELSE (current_price - entry_price) * stock_leg.quantity
                        ELSE 0
           total_pnl == (option_pnl + stock_pnl) * o_config.position_size
           position_value == o_config.initial_capital + total_pnl
       IN  /\ o_daily_pnl' = Append(o_daily_pnl,
                  [date |-> current_date, spot_price |-> current_price,
                   position_value |-> position_value, daily_pnl |-> total_pnl,
                   dte |-> dte])
           /\ o_greeks_series' =
                  IF GreeksStored(T)
                  THEN Append(o_greeks_series,
                              [date |-> current_date, S |-> current_price, T |-> T,
                               sigma |-> current_vol])
                  ELSE o_greeks_series
           /\ o_trades' =
                  IF dte = 0
                  THEN Append(o_trades,
                              [date |-> current_date, action |-> "EXPIRE",
                               strategy |-> o_config.strategy_type,
                               strikes |-> o_strikes,
                               final_premiums |-> current_premiums,
                               final_pnl |-> total_pnl,
                               spot_price |-> current_price])
                  ELSE o_trades
           /\ o_pc' = AfterIteration(dte, day_idx, Len(o_price_data))
    /\ o_day_idx' = o_day_idx + 1
    /\ UNCHANGED <<o_caller, o_request, o_config, o_price_data, o_volatility_data,
                   o_fetches, o_runs, o_status>>
    /\ UNCHANGED <<o_volatility, o_strikes, o_entry_premiums, o_stats, o_payoff_diagram>>
    /\ UNCHANGED <<catVars, kVars, pVars, fVars>>

\* OptionsBacktestEngine.run lines 209-235 and routers/options.py lines
\* 277-283: statistics, payoff diagram, return, for the payoff diagram given
ReturnResult(payoff_diagram) ==
    /\ o_pc = "stats"
    /\ LET pnl_values == [i \in 1..Len(o_daily_pnl) |-> o_daily_pnl[i].daily_pnl]
           final_pnl == IF pnl_values # <<>> THEN pnl_values[Len(pnl_values)] ELSE 0
       IN  /\ \E total_return \in total_return_of(final_pnl, o_config.initial_capital),
                 breakeven_points \in breakeven_points_of(
                     o_config.strategy_type, o_strikes, o_entry_premiums,
                     o_daily_pnl[1].spot_price) :
                 o_stats' =
                     [initial_capital |-> o_config.initial_capital,
                      final_value |-> o_config.initial_capital + final_pnl,
                      total_pnl |-> final_pnl,
                      total_return |-> total_return,
                      max_profit |-> IF pnl_values # <<>> THEN SeqMax(pnl_values) ELSE 0,
                      max_loss |-> IF pnl_values # <<>> THEN SeqMin(pnl_values) ELSE 0,
                      max_drawdown |-> calculate_max_drawdown(pnl_values),
                      win_rate |-> calculate_win_rate(final_pnl),
                      strategy |-> o_config.strategy_type,
                      days_held |-> Len(o_daily_pnl),
                      entry_date |-> 0,
                      exit_date |-> Min(Len(o_price_data) - 1, Len(o_daily_pnl) - 1),
                      breakeven_points |-> breakeven_points]
           /\ o_payoff_diagram' = payoff_diagram
    /\ o_pc' = "returned"
    /\ o_status' = (IF o_caller = "endpoint" THEN 200 ELSE o_status)
    /\ UNCHANGED <<o_caller, o_request, o_config, o_price_data, o_volatility_data,
                   o_fetches, o_runs>>
    /\ UNCHANGED <<o_volatility, o_strikes, o_entry_premiums, o_day_idx, o_daily_pnl,
                   o_greeks_series, o_trades>>
    /\ UNCHANGED <<catVars, kVars, pVars, fVars>>

\* the end of run with the payoff diagram kept as its price range
\* (hundredths of a cent) and its number of points; SpecDiagram keeps the
\* points
CalculateStatistics ==
    LET levels == o_strikes \o <<o_price_data[1]>>
    IN  ReturnResult([points |-> PayoffPoints,
                      min_price |-> SeqMin(levels) * 80,
                      max_price |-> SeqMax(levels) * 120])

NextOptions ==
    \/ ValidateVolatility
    \/ FetchHistoricalData
    \/ CheckLength
    \/ EngineRun
    \/ DailyMarkToMarket
    \/ CalculateStatistics

SpecOptions == InitOptions /\ [][NextOptions]_vars

---------------------------------------------------------------------------
(* Claims about the options backtest                                       *)

EngineStarted == o_pc \in {"loop", "stats", "returned"}

LastTrade == o_trades[Len(o_trades)]

CountTrades(action) ==
    Cardinality({i \in 1..Len(o_trades) : o_trades[i].action = action})

\* C1 (as claimed): for days_to_expiration = N and a series of exactly N
\* observations the run returns N daily_pnl entries and a trade log whose
\* last event is EXPIRE.
C1_ExpiresOnSeriesOfLengthN ==
    (o_pc = "returned" /\ Len(o_price_data) = o_config.days_to_expiration) =>
        /\ Len(o_daily_pnl) = o_config.days_to_expiration
        /\ LastTrade.action = "EXPIRE"

C3_EngineNeverStartsInvalid ==
    o_caller = "endpoint" =>
        /\ (o_pc # "validate" /\ o_request.volatility_model = "fixed"
              /\ o_request.fixed_volatility = None) =>
                  /\ o_pc = "http_error" /\ o_status = 400
                  /\ o_fetches = 0 /\ o_runs = 0
        /\ (o_pc \notin {"validate", "fetch", "check"}
              /\ Len(o_price_data) < o_request.days_to_expiration) =>
                  /\ o_pc = "http_error" /\ o_status = 400
                  /\ o_runs = 0
        /\ o_runs > 0 =>
              /\ ~(o_request.volatility_model = "fixed" /\ o_request.fixed_volatility = None)
              /\ Len(o_price_data) >= o_request.days_to_expiration
              /\ o_fetches = 1

\* C3 witness: a fetched series shorter than days_to_expiration, answered 400
C3_Witness ==
    /\ o_caller = "endpoint"
    /\ o_pc = "http_error" /\ o_status = 400
    /\ o_fetches = 1 /\ o_price_data # <<>>
    /\ Len(o_price_data) < o_request.days_to_expiration
    /\ o_runs = 0

HasTimeLeft(record) == record.dte > 0

\* C5: the Greeks records are those of the simulated days with dte > 0, in
\* the same order, and none was evaluated at T <= 0.
C5_GreeksOnlyBeforeExpiry ==
    EngineStarted =>
        LET live == SelectSeq(o_daily_pnl, HasTimeLeft)
        IN  /\ Len(o_greeks_series) = Len(live)
            /\ \A g \in 1..Len(o_greeks_series) :
                  /\ o_greeks_series[g].date = live[g].date
                  /\ o_greeks_series[g].T = live[g].dte
                  /\ o_greeks_series[g].T > 0

\* C5 witness: a run that expired, with Greeks for every day but the last
C5_Witness ==
    /\ o_pc = "returned"
    /\ LastTrade.action = "EXPIRE"
    /\ Len(o_greeks_series) >= 1
    /\ Len(o_daily_pnl) = Len(o_greeks_series) + 1

\* the series as the statement describes it: a constant in fixed mode;
\* otherwise 0.30 throughout when nothing is defined, and else each
\* undefined day takes the last defined value before it or, when there is
\* none, the first defined value after it
ClaimedVolatility(config, data) ==
    LET defined == {i \in 1..Len(data) : data[i] # NaN}
        before(d) == {i \in defined : i <= d}
        after(d) == {i \in defined : i >= d}
        latest(d) == CHOOSE i \in before(d) : \A j \in before(d) : j <= i
        earliest(d) == CHOOSE i \in after(d) : \A j \in after(d) : i <= j
    IN  [d \in 1..Len(data) |->
            IF config.volatility_model = "fixed" /\ config.fixed_volatility # None
            THEN config.fixed_volatility
            ELSE IF defined = {} THEN DefaultVolatility
            ELSE IF before(d) # {} THEN data[latest(d)]
            ELSE data[earliest(d)]]

\* the mark-to-market P&L of day d priced with the volatility sigma
PnlPricedWith(d, sigma) ==
    LET legs == Legs(o_config.strategy_type)
        stock_leg == StockLegOf(o_config.strategy_type)
        current_price == o_price_data[d]
        moved == (current_price - o_price_data[1]) * stock_leg.quantity
        current_premiums ==
            calculate_current_premiums(
                current_price, o_strikes,
                dte_of(o_config.days_to_expiration, d - 1),
                o_config.risk_free_rate, sigma, legs)
    IN  (calculate_option_pnl(legs, o_entry_premiums, current_premiums)
           + (IF ~stock_leg.present THEN 0
              ELSE IF stock_leg.position_type = SHORT THEN -moved ELSE moved))
          * o_config.position_size

\* C12: every pricing and Greeks evaluation of a run uses the configured
\* constant in fixed mode and otherwise the forward- then backward-filled
\* series (0.30 throughout when it is wholly undefined); no undefined
\* volatility reaches the pricing functions.
C12_VolatilityUsed ==
    EngineStarted =>
        LET legs == Legs(o_config.strategy_type)
            claimed == ClaimedVolatility(o_config, o_volatility_data)
        IN  /\ o_volatility = claimed
            /\ \A d \in 1..Len(o_volatility) : o_volatility[d] # NaN
            /\ o_entry_premiums =
                   [n \in 1..Len(legs) |->
                       black_scholes_vectorized(
                           o_price_data[1], o_strikes[n],
                           o_config.days_to_expiration, o_config.risk_free_rate,
                           claimed[1], legs[n].option_type)]
            /\ \A d \in 1..Len(o_daily_pnl) :
                   o_daily_pnl[d].daily_pnl = PnlPricedWith(d, claimed[d])
            /\ \A g \in 1..Len(o_greeks_series) :
                   /\ o_greeks_series[g].sigma # NaN
                   /\ o_greeks_series[g].sigma = claimed[o_greeks_series[g].date + 1]

\* C12 witness: a fixed-volatility run over a series with undefined values
\* that priced and stored Greeks on more than one day
C12_Witness ==
    /\ o_pc = "returned"
    /\ o_config.volatility_model = "fixed" /\ o_config.fixed_volatility # None
    /\ \E d \in 1..Len(o_volatility_data) : o_volatility_data[d] = NaN
    /\ Len(o_greeks_series) >= 2

\* C12 witness of the other mode: a gap inside the series and one at its
\* start were filled and priced with
C12_FilledSeriesPriced ==
    /\ o_pc = "returned"
    /\ o_config.volatility_model = "historical"
    /\ \E d \in 1..Len(o_volatility_data) :
          o_volatility_data[d] = NaN /\ o_volatility[d] \notin {NaN, DefaultVolatility}
    /\ Len(o_greeks_series) >= 2

\* the daily_pnl values of the run, in cents
PnlSeries == [i \in 1..Len(o_daily_pnl) |-> o_daily_pnl[i].daily_pnl]

\* the falls of the P&L from a day to the same or a later day
Falls ==
    {PnlSeries[ij[1]] - PnlSeries[ij[2]] :
        ij \in {ij \in (1..Len(PnlSeries)) \X (1..Len(PnlSeries)) : ij[1] <= ij[2]}}

\* C22: the max_drawdown statistic of a returned run is the largest value of
\* daily_pnl[i] - daily_pnl[j] over days i <= j of the daily P&L series (not
\* of the position values), it is never negative, and it is 0 exactly when
\* no day's P&L is below an earlier day's.
C22_MaxDrawdownOnPnl ==
    o_pc = "returned" =>
        /\ o_stats.max_drawdown \in Falls
        /\ \A fall \in Falls : fall <= o_stats.max_drawdown
        /\ o_stats.max_drawdown >= 0
        /\ o_stats.max_drawdown = 0 <=>
              \A i, j \in 1..Len(PnlSeries) : i <= j => PnlSeries[i] <= PnlSeries[j]

\* C22 witness: a run whose P&L falls from a first peak and then rises above
\* it, so that the drawdown is neither the fall from the highest P&L nor the
\* fall to the final one
C22_Witness ==
    /\ o_pc = "returned"
    /\ Len(o_daily_pnl) >= 3
    /\ o_stats.max_drawdown > 0
    /\ o_stats.max_drawdown # SeqMax(PnlSeries) - SeqMin(PnlSeries)
    /\ o_stats.max_drawdown # SeqMax(PnlSeries) - PnlSeries[Len(PnlSeries)]

---------------------------------------------------------------------------
(* Specification SpecPortfolio: one request to a portfolio entry point:    *)
(* POST /backtest (one portfolio), POST /backtest/batch (a list of them),  *)
(* POST /backtest/run-and-save (one portfolio, for a logged-in user).      *)

\* portfolios in one batch request (the API allows 3)
MaxPortfolios == 2

\* routers/backtest.py BacktestRequest.tickers: any list of 1 to 50 strings,
\* a repeated ticker included
TickerLists == {<<"AAA">>, <<"AAA", "BBB">>, <<"AAA", "AAA">>}

\* sums 0.95, 0.99, 0.995, 1.0, 1.005, 1.01 and 1.05, of one or two weights
WeightLists ==
    {<<950>>, <<995>>, <<1000>>}
        \cup {<<500, w>> : w \in {450, 490, 495, 500, 505, 510, 550}}

PortfolioInputs == [tickers : TickerLists, weights : WeightLists]

InitPortfolio ==
    /\ p_endpoint \in {"backtest", "batch", "run_and_save"}
    /\ p_pc = (IF p_endpoint = "run_and_save" THEN "authenticate" ELSE "validate")
    /\ p_authenticated \in (IF p_endpoint = "run_and_save" THEN BOOLEAN ELSE {FALSE})
    /\ p_save_to_history \in (IF p_endpoint = "run_and_save" THEN BOOLEAN ELSE {FALSE})
    /\ p_portfolios \in
          (IF p_endpoint = "batch"
           THEN UNION {[1..n -> PortfolioInputs] : n \in 1..MaxPortfolios}
           ELSE [1..1 -> PortfolioInputs])
    /\ p_status = 0
    /\ p_detail = "none"
    /\ p_fetches = 0
    /\ p_engine_runs = 0
    /\ p_history = 0
    /\ IdleCatalog
    /\ IdleStrikes
    /\ IdleOptions
    /\ IdleFunctions

\* auth/dependencies.py get_current_user, resolved before the handler runs
Authenticate ==
    /\ p_pc = "authenticate"
    /\ IF p_authenticated
       THEN p_pc' = "validate" /\ p_status' = p_status /\ p_detail' = p_detail
       ELSE p_pc' = "done" /\ p_status' = 401 /\ p_detail' = "not_authenticated"
    /\ UNCHANGED <<p_endpoint, p_authenticated, p_portfolios, p_save_to_history,
                   p_fetches, p_engine_runs, p_history>>
    /\ UNCHANGED <<catVars, kVars, oVars, fVars>>

\* the first portfolio, in request order, that a check rejects, and the check
FirstRejected(accepted) ==
    LET bad == {i \in 1..Len(p_portfolios) :
                    LengthMismatch(p_portfolios[i]) \/ ~accepted[i]}
    IN  IF bad = {} THEN 0 ELSE CHOOSE i \in bad : \A j \in bad : i <= j

\* routers/backtest.py lines 181-193 and 319-331, routers/history.py lines
\* 111-123: the length check, then the weight sum check, portfolio by
\* portfolio
ValidateWeights ==
    /\ p_pc = "validate"
    /\ \E accepted \in [1..Len(p_portfolios) -> BOOLEAN] :
          /\ \A i \in 1..Len(p_portfolios) :
                accepted[i] \in WeightSumAccepted(p_portfolios[i].weights)
          /\ LET first == FirstRejected(accepted)
             IN  IF first = 0
                 THEN p_pc' = "fetch" /\ p_status' = p_status /\ p_detail' = p_detail
                 ELSE /\ p_pc' = "done"
                      /\ p_status' = 400
                      /\ p_detail' = (IF LengthMismatch(p_portfolios[first])
                                      THEN "length_mismatch" ELSE "weight_sum")
    /\ UNCHANGED <<p_endpoint, p_authenticated, p_portfolios, p_save_to_history,
                   p_fetches, p_engine_runs, p_history>>
    /\ UNCHANGED <<catVars, kVars, oVars, fVars>>

\* routers/backtest.py lines 195-212 and 340-357, routers/history.py lines
\* 125-142: fetch_stock_data raises, returns no rows, or returns prices
FetchStockData ==
    /\ p_pc = "fetch"
    /\ p_fetches' = p_fetches + 1
    /\ \/ p_pc' = "done" /\ p_status' = 400 /\ p_detail' = "fetch_failed"
       \/ p_pc' = "done" /\ p_status' = 400 /\ p_detail' = "no_price_data"
       \/ p_pc' = "run" /\ p_status' = p_status /\ p_detail' = p_detail
    /\ UNCHANGED <<p_endpoint, p_authenticated, p_portfolios, p_save_to_history,
                   p_engine_runs, p_history>>
    /\ UNCHANGED <<catVars, kVars, oVars, fVars>>

\* a ticker at two positions of the list
RepeatedTicker(tickers) ==
    \E i, j \in 1..Len(tickers) : i < j /\ tickers[i] = tickers[j]

\* routers/backtest.py lines 214-305 and 359-435, routers/history.py lines
\* 144-272: the benchmark fetch of the single-portfolio handlers, one
\* BacktestEngine per portfolio, constructed from the portfolio's tickers
\* and weights and run, the history row, the response.  With a repeated
\* ticker the frame handed to run has the columns the data library and the
\* column selection produce, and run or the serialisation of its result may
\* raise, which is answered 500; no handler catches it.
RunBacktest ==
    /\ p_pc = "run"
    /\ p_fetches' = (IF p_endpoint = "batch" THEN p_fetches ELSE p_fetches + 1)
    /\ p_pc' = "done"
    /\ \/ /\ p_engine_runs' = p_engine_runs + Len(p_portfolios)
          /\ p_history' = (IF p_endpoint = "run_and_save" /\ p_save_to_history
                           THEN p_history + 1 ELSE p_history)
          /\ p_status' = 200
          /\ p_detail' = p_detail
       \/ \E raised \in 1..Len(p_portfolios) :
             /\ RepeatedTicker(p_portfolios[raised].tickers)
             /\ p_engine_runs' = p_engine_runs + raised
             /\ p_history' = p_history
             /\ p_status' = 500
             /\ p_detail' = "engine_raised"
    /\ UNCHANGED <<p_endpoint, p_authenticated, p_portfolios, p_save_to_history>>
    /\ UNCHANGED <<catVars, kVars, oVars, fVars>>

NextPortfolio ==
    \/ Authenticate
    \/ ValidateWeights
    \/ FetchStockData
    \/ RunBacktest

SpecPortfolio == InitPortfolio /\ [][NextPortfolio]_vars

---------------------------------------------------------------------------
(* Claims about the portfolio entry points                                 *)

Validated == p_pc \in {"fetch", "run"} \/ (p_pc = "done" /\ p_detail \notin
                 {"not_authenticated", "length_mismatch", "weight_sum"})

\* C4: in the three entry points a request in which some portfolio has a
\* number of weights different from its number of tickers, or a weight sum
\* outside [0.99, 1.01] (0.95 and 1.05 are), is answered 400 before any
\* fetch and any BacktestEngine.run; a request whose portfolios all have
\* matching lengths and sums 0.995 or 1.005 passes the validation.
C4_WeightsValidatedFirst ==
    (p_pc \notin {"authenticate", "validate"} /\ p_detail # "not_authenticated") =>
        /\ (\E i \in 1..Len(p_portfolios) :
               \/ Len(p_portfolios[i].tickers) # Len(p_portfolios[i].weights)
               \/ sum(p_portfolios[i].weights) < 990
               \/ sum(p_portfolios[i].weights) > 1010
               \/ sum(p_portfolios[i].weights) \in {950, 1050}) =>
                  /\ p_pc = "done" /\ p_status = 400
                  /\ p_detail \in {"length_mismatch", "weight_sum"}
                  /\ p_fetches = 0 /\ p_engine_runs = 0 /\ p_history = 0
        /\ (\A i \in 1..Len(p_portfolios) :
               /\ Len(p_portfolios[i].tickers) = Len(p_portfolios[i].weights)
               /\ sum(p_portfolios[i].weights) \in {995, 1005}) => Validated
        /\ (p_fetches > 0 \/ p_engine_runs > 0) => Validated

\* C4 witness: a batch whose second portfolio sums to 1.05, rejected with
\* nothing fetched
C4_Witness ==
    /\ p_endpoint = "batch"
    /\ Len(p_portfolios) = 2
    /\ sum(p_portfolios[1].weights) = 1005
    /\ Len(p_portfolios[1].tickers) = 2
    /\ sum(p_portfolios[2].weights) = 1050
    /\ p_pc = "done" /\ p_status = 400 /\ p_detail = "weight_sum"
    /\ p_fetches = 0

---------------------------------------------------------------------------
(* Specification SpecPremium: the three net premium computations and the   *)
(* net_premium field of the OPEN event, for one strategy, one premium      *)
(* vector and one position size.  A premium is in millionths of a dollar   *)
(* (10000 to the cent), finer than the 2 decimals of the OPEN event.       *)

\* 1.00, 1.234567, 0.02005 (200.5 cents for 100 shares) and 2.50 dollars
PremiumValues == {1000000, 1234567, 20050, 2500000}

InitPremium ==
    /\ f_pc = "called"
    /\ f_in \in UNION {[strategy_type : {st},
                        premiums : [1..Len(Legs(st)) -> PremiumValues],
                        position_size : PositionSizes] : st \in STRATEGY_REGISTRY}
    /\ f_out = <<>>
    /\ IdleCatalog
    /\ IdleStrikes
    /\ IdleOptions
    /\ IdlePortfolio

\* _calculate_net_premium, get_net_premium, is_debit_strategy on the same
\* premiums, and line 129 of run
EvaluateNetPremium ==
    /\ f_pc = "called"
    /\ LET net_premium == calculate_net_premium(Legs(f_in.strategy_type), f_in.premiums)
       IN  \E recorded \in open_net_premium(net_premium, f_in.position_size, 10000) :
              f_out' = [engine |-> net_premium,
                        base |-> get_net_premium(f_in.strategy_type, f_in.premiums),
                        is_debit |-> is_debit_strategy(f_in.strategy_type, f_in.premiums),
                        open |-> recorded]
    /\ f_pc' = "returned"
    /\ UNCHANGED f_in
    /\ UNCHANGED <<catVars, kVars, oVars, pVars>>

NextPremium == EvaluateNetPremium

SpecPremium == InitPremium /\ [][NextPremium]_vars

---------------------------------------------------------------------------
(* Claims about the net premium                                            *)

RECURSIVE SignedPremiums(_, _, _)
\* sum over legs 1..n of -premium*quantity (long) or +premium*quantity (short)
SignedPremiums(legs, premiums, n) ==
    IF n = 0 THEN 0
    ELSE SignedPremiums(legs, premiums, n - 1)
           + (IF legs[n].position_type = SHORT THEN 1 ELSE -1)
               * premiums[n] * legs[n].quantity

ClaimedNetPremium ==
    SignedPremiums(Legs(f_in.strategy_type), f_in.premiums,
                   Len(Legs(f_in.strategy_type)))

NetPremiumFunctionsAgree ==
    /\ f_out.engine = ClaimedNetPremium
    /\ f_out.base = ClaimedNetPremium
    /\ f_out.is_debit = (ClaimedNetPremium < 0)

\* C11 (as claimed): _calculate_net_premium and get_net_premium return the
\* signed sum, is_debit_strategy is true exactly when it is negative, and
\* the OPEN event records it multiplied by 100 * position_size.
C11_NetPremiumRecorded ==
    f_pc = "returned" =>
        /\ NetPremiumFunctionsAgree
        /\ f_out.open * 10000 = ClaimedNetPremium * 100 * f_in.position_size

\* C11 (amended): as above, the OPEN event recording the product rounded to
\* 2 decimals: it is within half a cent of it.
C11_NetPremiumRecordedRounded ==
    f_pc = "returned" =>
        /\ NetPremiumFunctionsAgree
        /\ f_out.open * 10000 - ClaimedNetPremium * 100 * f_in.position_size
              \in -5000..5000

\* C11 witness: an iron condor entered for a net credit that is no whole
\* number of cents for the position
C11_Witness ==
    /\ f_pc = "returned"
    /\ f_in.strategy_type = "iron_condor"
    /\ f_out.engine > 0
    /\ ~f_out.is_debit
    /\ (f_out.engine * 100 * f_in.position_size) % 10000 # 0

---------------------------------------------------------------------------
(* core/pricing/implied_volatility.py: historical volatility.              *)
(* Volatilities are integers; the logarithm of a price ratio and the       *)
(* sample standard deviation are replaced by integer stand-ins that are    *)
(* defined exactly where the code's values are.                            *)

\* line 171: np.log(prices[1:] / prices[:-1]), one return per price but the first
log_return(price, previous) == ((price - previous) * 1000) \div previous

\* np.std(window_returns, ddof=1): undefined for fewer than two returns
std_ddof1(window_returns) ==
    IF Len(window_returns) < 2 THEN NaN
    ELSE SeqMax(window_returns) - SeqMin(window_returns)

\* calculate_historical_volatility (lines 165-181): positions are 1-based
\* here, so the code's hv[i] for i in range(window, len(prices)) is
\* hv[i + 1] below
calculate_historical_volatility(prices, window) ==
    IF Len(prices) < 2 THEN [i \in 1..Len(prices) |-> NaN]
    ELSE LET log_returns == [j \in 1..(Len(prices) - 1) |->
                                log_return(prices[j + 1], prices[j])]
         IN  [i \in 1..Len(prices) |->
                 IF i - 1 >= window
                 THEN std_ddof1(SubSeq(log_returns, i - window, i - 1))
                 ELSE NaN]

\* np.maximum.accumulate(idx): the running maximum
maximum_accumulate(idx) == [i \in 1..Len(idx) |-> SeqMax(SubSeq(idx, 1, i))]

\* np.minimum.accumulate(idx[::-1])[::-1]: the running minimum from the end
minimum_accumulate_reversed(idx) ==
    [i \in 1..Len(idx) |-> SeqMin(SubSeq(idx, i, Len(idx)))]

\* np.argmax(~np.isnan(hv)): the first defined position (0-based), 0 when
\* there is none
argmax_not_nan(hv) ==
    IF \A i \in 1..Len(hv) : hv[i] = NaN THEN 0
    ELSE (CHOOSE i \in 1..Len(hv) :
              hv[i] # NaN /\ \A j \in 1..(i - 1) : hv[j] = NaN) - 1

\* np.nanmean(hv): the mean of the defined values
nanmean(hv) ==
    LET valid == SelectSeq(hv, LAMBDA v : v # NaN)
    IN  sum(valid) \div Len(valid)

\* lines 204-212, fill_method "ffill"; idx holds 0-based positions
fill_ffill(hv0) ==
    LET idx == maximum_accumulate(
                   [i \in 1..Len(hv0) |-> IF hv0[i] # NaN THEN i - 1 ELSE 0])
        hv == [i \in 1..Len(hv0) |-> hv0[idx[i] + 1]]
        first_valid_idx == argmax_not_nan(hv)
        value == IF first_valid_idx < Len(hv) THEN hv[first_valid_idx + 1]
                 ELSE DefaultVolatility
    IN  [i \in 1..Len(hv) |-> IF i - 1 < first_valid_idx THEN value ELSE hv[i]]

\* lines 213-218, fill_method "bfill"
fill_bfill(hv0) ==
    LET idx == minimum_accumulate_reversed(
                   [i \in 1..Len(hv0) |-> IF hv0[i] # NaN THEN i - 1 ELSE Len(hv0) - 1])
    IN  [i \in 1..Len(hv0) |-> hv0[idx[i] + 1]]

\* lines 219-222, fill_method "mean"
fill_mean(hv0) ==
    LET valid_mean == IF \E i \in 1..Len(hv0) : hv0[i] # NaN
                      THEN nanmean(hv0) ELSE DefaultVolatility
    IN  [i \in 1..Len(hv0) |-> IF hv0[i] = NaN THEN valid_mean ELSE hv0[i]]

\* calculate_historical_volatility_series (lines 202-224)
calculate_historical_volatility_series(prices, window, fill_method) ==
    LET hv == calculate_historical_volatility(prices, window)
    IN  IF fill_method = "ffill" THEN fill_ffill(hv)
        ELSE IF fill_method = "bfill" THEN fill_bfill(hv)
        ELSE IF fill_method = "mean" THEN fill_mean(hv)
        ELSE hv

---------------------------------------------------------------------------
(* Specification SpecHistVol: one call of                                  *)
(* calculate_historical_volatility_series on a non-empty price array.      *)

\* longest price array
MaxPrices == 5

\* largest rolling window
MaxWindow == 3

HvPrices == {100, 110, 125}

InitHistVol ==
    /\ f_pc = "called"
    /\ f_in \in [prices : UNION {[1..n -> HvPrices] : n \in 1..MaxPrices},
                 window : 1..MaxWindow,
                 fill_method : {"ffill", "bfill", "mean"}]
    /\ f_out = <<>>
    /\ IdleCatalog /\ IdleStrikes /\ IdleOptions /\ IdlePortfolio

HistoricalVolatilitySeries ==
    /\ f_pc = "called"
    /\ f_out' = [hv |-> calculate_historical_volatility(f_in.prices, f_in.window),
                 series |-> calculate_historical_volatility_series(
                                f_in.prices, f_in.window, f_in.fill_method)]
    /\ f_pc' = "returned"
    /\ UNCHANGED f_in
    /\ UNCHANGED <<catVars, kVars, oVars, pVars>>

NextHistVol == HistoricalVolatilitySeries

SpecHistVol == InitHistVol /\ [][NextHistVol]_vars

---------------------------------------------------------------------------
(* Claims about the historical volatility                                  *)

\* positions 0..window-1 undefined, every later position defined
WindowPositions ==
    \A i \in 1..Len(f_in.prices) :
        (f_out.hv[i] = NaN) <=> (i - 1 < f_in.window)

\* forward-fill, then backward-fill, then 0.30
ClaimedFill(hv) ==
    LET filled == bfill(ffill(hv))
    IN  [i \in 1..Len(hv) |-> IF filled[i] = NaN THEN DefaultVolatility ELSE filled[i]]

\* C13: the rolling volatility is undefined exactly at positions
\* 0..window-1, and the filled series has the length of the prices and no
\* undefined entry: forward-fill, backward-fill, 0.30 when no window is
\* complete.
C13_HistoricalVolatilityFilled ==
    f_pc = "returned" =>
        /\ WindowPositions
        /\ Len(f_out.series) = Len(f_in.prices)
        /\ \A i \in 1..Len(f_out.series) : f_out.series[i] # NaN
        /\ f_out.series = ClaimedFill(f_out.hv)

---------------------------------------------------------------------------
(* Specification SpecPricing: arrays S, T and sigma priced by              *)
(* black_scholes_vectorized and, element by element, by                    *)
(* black_scholes_price.                                                    *)

\* longest array
MaxElements == 2

\* (S, T, sigma) of one element: spot below or above the strike 100.00; T
\* negative, zero, one day, 30 days; sigma negative, zero, 20%
PricingElements == {9000, 11000} \X {-5, 0, 1, 30} \X {-10, 0, 20}

InitPricing ==
    /\ f_pc = "called"
    /\ \E n \in 1..MaxElements :
         \E elements \in [1..n -> PricingElements] :
           \E r \in {0, RiskFreeRate} :
             \E option_type \in {CALL, PUT} :
               f_in = [S |-> [i \in 1..n |-> elements[i][1]],
                       K |-> 10000,
                       T |-> [i \in 1..n |-> elements[i][2]],
                       r |-> r,
                       sigma |-> [i \in 1..n |-> elements[i][3]],
                       option_type |-> option_type]
    /\ f_out = <<>>
    /\ IdleCatalog /\ IdleStrikes /\ IdleOptions /\ IdlePortfolio

PriceElements ==
    /\ f_pc = "called"
    /\ f_out' = [vectorized |->
                     black_scholes_vectorized_arrays(
                         f_in.S, f_in.K, f_in.T, f_in.r, f_in.sigma, f_in.option_type),
                 scalar |->
                     [i \in 1..Len(f_in.S) |->
                         black_scholes_price(f_in.S[i], f_in.K, f_in.T[i], f_in.r,
                                             f_in.sigma[i], f_in.option_type)]]
    /\ f_pc' = "returned"
    /\ UNCHANGED f_in
    /\ UNCHANGED <<catVars, kVars, oVars, pVars>>

NextPricing == PriceElements

SpecPricing == InitPricing /\ [][NextPricing]_vars

---------------------------------------------------------------------------
(* Claims about the two pricing functions                                  *)

\* the price the statement gives element i
ClaimedPrice(i) ==
    LET S == f_in.S[i]
        K == f_in.K
        T == f_in.T[i]
        discounted == Discounted(K, T, f_in.r)
        intrinsic == IF f_in.option_type = CALL THEN Max(S - K, 0) * 100
                     ELSE Max(K - S, 0) * 100
        discounted_intrinsic ==
            IF f_in.option_type = CALL THEN Max(S * 100 - discounted, 0)
            ELSE Max(discounted - S * 100, 0)
    IN  IF T <= 0 THEN intrinsic
        ELSE IF f_in.sigma[i] <= 0 THEN discounted_intrinsic
        ELSE Max(discounted_intrinsic + TimeValue(S, K, T, f_in.sigma[i]), 0)

\* element i priced as an array of its own
PricedAlone(i) ==
    black_scholes_vectorized_arrays(
        <<f_in.S[i]>>, f_in.K, <<f_in.T[i]>>, f_in.r, <<f_in.sigma[i]>>,
        f_in.option_type)[1]

\* C14: for every element the vectorized price is the scalar price, it is
\* the price of the branch the statement names (intrinsic when T <= 0,
\* discounted intrinsic when T > 0 and sigma <= 0, closed form otherwise),
\* it is not negative, and it does not depend on the other elements.
C14_VectorizedMatchesScalar ==
    f_pc = "returned" =>
        /\ Len(f_out.vectorized) = Len(f_in.S)
        /\ \A i \in 1..Len(f_in.S) :
              /\ f_out.vectorized[i] = f_out.scalar[i].price
              /\ f_out.vectorized[i] = ClaimedPrice(i)
              /\ f_out.vectorized[i] >= 0
              /\ f_out.vectorized[i] = PricedAlone(i)

\* C14 witness: an array holding an element that is expired and has no
\* volatility next to one priced by the closed form
C14_Witness ==
    /\ f_pc = "returned"
    /\ Len(f_in.S) = 2
    /\ f_in.T[1] < 0 /\ f_in.sigma[1] <= 0
    /\ f_in.T[2] > 0 /\ f_in.sigma[2] > 0
    /\ f_in.r > 0
    /\ f_out.vectorized[1] > 0
    /\ f_out.vectorized[2] > f_out.vectorized[1]

---------------------------------------------------------------------------
(* core/pricing/greeks.py.  A Greek is an integer number of 1e-7 (delta    *)
(* 1.0 is 10000000); d1 and d2 are in thousandths.  log, sqrt and the      *)
(* normal distribution are integer approximations: the distribution        *)
(* function is linear around 0 and exactly 0 or 1 beyond |d| = 1.254, as   *)
(* the floating-point one is exactly 0 or 1 far from 0.                    *)

One == 10000000

\* np.sqrt(T) for T in days, in thousandths of a square-rooted year
sqrt_T_of(T) ==
    LET x == (T * 1000000) \div 365
    IN  CHOOSE n \in 0..1001 : n * n <= x /\ x < (n + 1) * (n + 1)

\* norm.cdf(d), in 1e-7
norm_cdf(d) ==
    LET dd == Max(-2000, Min(2000, d))
    IN  Max(0, Min(One, 5000000 + dd * 3989))

\* norm.pdf(d), in thousandths
norm_pdf(d) == Max(0, 399 - (Min(2000, Max(d, -d)) * 318) \div 1000)

\* d1 = (log(S / K) + (r + 0.5 * sigma**2) * T) / (sigma * sqrt(T)), T > 0
d1_of(S, K, T, r, sigma) ==
    ((log_return(S, K) + (r * T) \div 365 + (sigma * sigma * T) \div 7300) * 100000)
        \div (sigma * sqrt_T_of(T))

\* d2 = d1 - sigma * sqrt(T)
d2_of(d1, T, sigma) == d1 - (sigma * sqrt_T_of(T)) \div 100

\* gamma = n_d1 / (S * sigma * sqrt_T)
gamma_of(S, T, sigma, n_d1) ==
    ((((n_d1 * 1000000) \div S) * 10000) \div (sigma * sqrt_T_of(T))) * 10

\* vega = S * n_d1 * sqrt_T / 100
vega_of(S, T, n_d1) == (((S * n_d1) \div 100) * sqrt_T_of(T)) \div 10

\* (S * n_d1 * sigma) / (2 * sqrt_T) / 365
theta_decay(S, T, sigma, n_d1) ==
    (((S * n_d1) \div 365) * sigma * 500) \div sqrt_T_of(T)

\* r * K * exp(-r * T) * N / 365, N in 1e-7
theta_carry(K, T, r, N) ==
    (((r * Discounted(K, T, r)) \div 1000) * (N \div 10000)) \div 365

\* K * T * exp(-r * T) * N / 100, N in 1e-7
rho_of(K, T, r, N) ==
    ((((Discounted(K, T, r) * T) \div 1000) * (N \div 10000)) * 2) \div 73

\* the five Greeks of lines 67-92 and 141-160, unrounded
greeks_formula(S, K, T, r, sigma, option_type) ==
    LET d1 == d1_of(S, K, T, r, sigma)
        d2 == d2_of(d1, T, sigma)
        n_d1 == norm_pdf(d1)
    IN  [delta |-> IF option_type = CALL THEN norm_cdf(d1) ELSE norm_cdf(d1) - One,
         gamma |-> gamma_of(S, T, sigma, n_d1),
         theta |-> IF option_type = CALL
                   THEN -theta_decay(S, T, sigma, n_d1) - theta_carry(K, T, r, norm_cdf(d2))
                   ELSE -theta_decay(S, T, sigma, n_d1) + theta_carry(K, T, r, norm_cdf(-d2)),
         vega |-> vega_of(S, T, n_d1),
         rho |-> IF option_type = CALL THEN rho_of(K, T, r, norm_cdf(d2))
                 ELSE -rho_of(K, T, r, norm_cdf(-d2))]

\* round(x, 6): the values x may become, in 1e-7
round6(x) == {q * 10 : q \in RoundTo(x, 10)}

\* calculate_greeks (lines 52-101): the Greeks it may return
calculate_greeks(S, K, T, r, sigma, option_type) ==
    IF T <= 0
    THEN {[delta |-> IF option_type = CALL
                     THEN (IF S > K THEN One ELSE IF S = K THEN One \div 2 ELSE 0)
                     ELSE (IF S < K THEN -One ELSE IF S = K THEN -(One \div 2) ELSE 0),
           gamma |-> 0, theta |-> 0, vega |-> 0, rho |-> 0]}
    ELSE IF sigma <= 0
    THEN {[delta |-> IF option_type = CALL
                     THEN (IF S * 100 > Discounted(K, T, r) THEN One ELSE 0)
                     ELSE (IF S * 100 < Discounted(K, T, r) THEN -One ELSE 0),
           gamma |-> 0, theta |-> 0, vega |-> 0, rho |-> 0]}
    ELSE LET g == greeks_formula(S, K, T, r, sigma, option_type)
         IN  [delta : round6(g.delta), gamma : round6(g.gamma),
              theta : round6(g.theta), vega : round6(g.vega), rho : round6(g.rho)]

\* sigma_safe = 0.01 where sigma <= 0
SigmaSafe == 1

\* calculate_greeks_vectorized (lines 127-179), one element of the arrays.
\* T_safe = max(T, 1e-10): for T <= 0 the square root is 1e-5, d1 is the
\* sign of log(S / K) times a number far beyond the range of norm.cdf, or
\* next to 0 for S = K; gamma, theta, vega and rho are then overwritten.
calculate_greeks_vectorized(S, K, T, r, sigma, option_type) ==
    LET expired_mask == T <= 0
        zero_vol_mask == sigma <= 0
        sigma_safe == IF zero_vol_mask THEN SigmaSafe ELSE sigma
        N_d1_expired == IF S > K THEN One ELSE IF S < K THEN 0 ELSE One \div 2
        g == IF expired_mask
             THEN [delta |-> IF option_type = CALL THEN N_d1_expired
                             ELSE N_d1_expired - One,
                   gamma |-> 1, theta |-> -1, vega |-> 1, rho |-> 1]
             ELSE greeks_formula(S, K, T, r, sigma_safe, option_type)
        gamma == IF expired_mask THEN 0 ELSE g.gamma
        theta == IF expired_mask THEN 0 ELSE g.theta
        vega == IF expired_mask THEN 0 ELSE g.vega
        rho == IF expired_mask THEN 0 ELSE g.rho
    IN  [delta |-> g.delta,
         gamma |-> IF zero_vol_mask THEN 0 ELSE gamma,
         theta |-> theta,
         vega |-> IF zero_vol_mask THEN 0 ELSE vega,
         rho |-> rho]

---------------------------------------------------------------------------
(* Specification SpecGreeks: the Greeks of one option by calculate_greeks  *)
(* and by calculate_greeks_vectorized (arrays of one element, as           *)
(* _calculate_position_greeks passes them).                                *)

\* spots around the strike 100.00 and its discounted value
GreeksSpots == {9000, 9970, 10000, 10050, 11000}

InitGreeks ==
    /\ f_pc = "called"
    /\ f_in \in [S : GreeksSpots, K : {10000}, T : {0, 1, 30, 365},
                 r : {0, RiskFreeRate}, sigma : {-10, 0, 20},
                 option_type : {CALL, PUT}]
    /\ f_out = <<>>
    /\ IdleCatalog /\ IdleStrikes /\ IdleOptions /\ IdlePortfolio

CalculateGreeks ==
    /\ f_pc = "called"
    /\ \E scalar \in calculate_greeks(f_in.S, f_in.K, f_in.T, f_in.r, f_in.sigma,
                                      f_in.option_type) :
         f_out' = [scalar |-> scalar,
                   vectorized |->
                       calculate_greeks_vectorized(f_in.S, f_in.K, f_in.T, f_in.r,
                                                   f_in.sigma, f_in.option_type)]
    /\ f_pc' = "returned"
    /\ UNCHANGED f_in
    /\ UNCHANGED <<catVars, kVars, oVars, pVars>>

NextGreeks == CalculateGreeks

SpecGreeks == InitGreeks /\ [][NextGreeks]_vars

---------------------------------------------------------------------------
(* Claims about the Greeks                                                 *)

ZeroVolatilityBranch == f_pc = "returned" /\ f_in.sigma <= 0 /\ f_in.T > 0

\* delta 1 / 0 for a call, -1 / 0 for a put, by the side of the discounted
\* strike the spot is on; every other Greek 0
ZeroVolatilityGreeks(greeks) ==
    /\ greeks.gamma = 0 /\ greeks.theta = 0 /\ greeks.vega = 0 /\ greeks.rho = 0
    /\ greeks.delta =
          (IF f_in.option_type = CALL
           THEN (IF f_in.S * 100 > Discounted(f_in.K, f_in.T, f_in.r) THEN One ELSE 0)
           ELSE (IF f_in.S * 100 < Discounted(f_in.K, f_in.T, f_in.r) THEN -One ELSE 0))

\* C15: in the zero-volatility branch (sigma <= 0, T > 0) both
\* calculate_greeks and calculate_greeks_vectorized return gamma = theta =
\* vega = rho = 0 and the binary delta.
C15_ZeroVolatilityGreeks ==
    ZeroVolatilityBranch =>
        /\ ZeroVolatilityGreeks(f_out.scalar)
        /\ ZeroVolatilityGreeks(f_out.vectorized)

---------------------------------------------------------------------------
(* core/pricing/implied_volatility.py: the two solvers.  A volatility is   *)
(* an integer number of 1/1024000 (0.001 is 1024), so that halving a       *)
(* bracket is exact for the iterations modelled; prices are in hundredths  *)
(* of a cent.  The Black-Scholes price as a function of sigma is replaced  *)
(* by a function that rises with sigma up to SigmaFlat and is flat beyond  *)
(* it, where vega is 0.                                                    *)

\* 1.0 in the unit of sigma
SigmaOne == 1024000

\* the volatility beyond which the price no longer rises
SigmaFlat == 4 * SigmaOne

\* bracket of implied_volatility_bisection: 0.001 and 5.0
SigmaLow == 1024
SigmaHigh == 5 * SigmaOne

\* initial_guess = 0.3
InitialGuess == 307200

\* sigma = 0.01 and sigma = 10 of lines 82-85
SigmaFloor == 10240
SigmaCap == 10 * SigmaOne

\* tolerance: |diff| < Tolerance, in hundredths of a cent
Tolerance == 1

\* the price falls by 1/VegaDivisor(S, K) per unit of sigma and day
VegaDivisor(S, K) == 256 + Max(S - K, K - S) \div 4

\* lines 61-67 and black_scholes_price for T > 0, sigma > 0
price_at(S, K, T, r, sigma, option_type) ==
    zero_vol_price(S, K, T, r, option_type)
        + (Min(sigma, SigmaFlat) * T) \div VegaDivisor(S, K)

\* line 71: vega < 1e-10
vega_too_small(sigma) == sigma >= SigmaFlat

\* line 79: sigma - diff / vega
newton_update(S, K, T, sigma, diff) == sigma - (diff * VegaDivisor(S, K)) \div T

\* sigma left as the update gave it
clamp_sigma_Unclamped(sigma) == sigma

\* lines 82-85
clamp_sigma(sigma) ==
    IF sigma <= 0 THEN SigmaFloor ELSE IF sigma > SigmaCap THEN SigmaCap ELSE sigma

\* no estimate when the iterations are used up
bisection_exhausted_NoResult(sigma_low, sigma_high) == None

\* line 144: return (sigma_low + sigma_high) / 2
bisection_exhausted(sigma_low, sigma_high) == (sigma_low + sigma_high) \div 2

\* lines 49-52: the discounted intrinsic value
newton_intrinsic(S, K, T, r, option_type) == zero_vol_price(S, K, T, r, option_type)

---------------------------------------------------------------------------
(* Specification SpecImpliedVol: one call of implied_volatility_newton or  *)
(* implied_volatility_bisection, one action per loop iteration.            *)

\* largest max_iterations
MaxIterations == 3

\* volatilities whose prices are observed: the bracket ends, the first
\* midpoints of the bisection, 0.01, 0.3, and one in the flat region
ObservedSigmas ==
    {SigmaLow, SigmaFloor, InitialGuess, (SigmaLow + SigmaHigh) \div 2,
     (SigmaLow + (SigmaLow + SigmaHigh) \div 2) \div 2, 700000, SigmaHigh}

\* observed prices: the price at one of these volatilities, just off it,
\* the intrinsic floor, just below the floor, and one beyond every price
ObservedPrices(S, K, T, r, option_type) ==
    {price_at(S, K, Max(T, 1), r, sigma, option_type) + off :
         sigma \in ObservedSigmas, off \in {0, 3}}
      \cup {zero_vol_price(S, K, Max(T, 1), r, option_type) + off : off \in {-1, 0}}
      \cup {700000}

NoLocals ==
    [sigma |-> None, sigma_low |-> None, sigma_high |-> None, iteration |-> 0,
     diff |-> None, updates |-> <<>>, result |-> None]

InitImpliedVol ==
    /\ f_pc = "called"
    /\ \E S \in {9000, 10000, 11000}, T \in {0, 30}, option_type \in {CALL, PUT},
          solver \in {"newton", "bisection"}, max_iterations \in 0..MaxIterations :
         \E market_price \in ObservedPrices(S, 10000, T, RiskFreeRate, option_type) :
           f_in = [solver |-> solver, market_price |-> market_price, S |-> S,
                   K |-> 10000, T |-> T, r |-> RiskFreeRate,
                   option_type |-> option_type, max_iterations |-> max_iterations]
    /\ f_out = NoLocals
    /\ IdleCatalog /\ IdleStrikes /\ IdleOptions /\ IdlePortfolio

\* implied_volatility_newton lines 45-57
NewtonEnter ==
    /\ f_pc = "called" /\ f_in.solver = "newton"
    /\ IF \/ f_in.T <= 0
          \/ f_in.market_price
               < newton_intrinsic(f_in.S, f_in.K, f_in.T, f_in.r, f_in.option_type)
       THEN f_pc' = "returned" /\ f_out' = f_out
       ELSE f_pc' = "newton" /\ f_out' = [f_out EXCEPT !.sigma = InitialGuess]
    /\ UNCHANGED f_in
    /\ UNCHANGED <<catVars, kVars, oVars, pVars>>

\* implied_volatility_newton lines 59-87: one pass of the loop, or its end
NewtonIterate ==
    /\ f_pc = "newton"
    /\ LET sigma == f_out.sigma
           price == price_at(f_in.S, f_in.K, f_in.T, f_in.r, sigma, f_in.option_type)
           diff == price - f_in.market_price
           updated == clamp_sigma(newton_update(f_in.S, f_in.K, f_in.T, sigma, diff))
       IN  IF f_out.iteration >= f_in.max_iterations
           THEN f_pc' = "returned" /\ f_out' = [f_out EXCEPT !.result = None]
           ELSE IF vega_too_small(sigma)
           THEN /\ f_pc' = "returned"
                /\ f_out' = [f_out EXCEPT !.result = None,
                                          !.iteration = f_out.iteration + 1]
           ELSE IF Max(diff, -diff) < Tolerance
           THEN /\ f_pc' = "returned"
                /\ f_out' = [f_out EXCEPT !.result = sigma, !.diff = diff,
                                          !.iteration = f_out.iteration + 1]
           ELSE /\ f_pc' = "newton"
                /\ f_out' = [f_out EXCEPT !.sigma = updated,
                                          !.updates = Append(f_out.updates, updated),
                                          !.iteration = f_out.iteration + 1]
    /\ UNCHANGED f_in
    /\ UNCHANGED <<catVars, kVars, oVars, pVars>>

\* implied_volatility_bisection lines 117-128
BisectionEnter ==
    /\ f_pc = "called" /\ f_in.solver = "bisection"
    /\ IF f_in.T <= 0
       THEN f_pc' = "returned" /\ f_out' = f_out
       ELSE LET price_low == price_at(f_in.S, f_in.K, f_in.T, f_in.r, SigmaLow,
                                      f_in.option_type)
                price_high == price_at(f_in.S, f_in.K, f_in.T, f_in.r, SigmaHigh,
                                       f_in.option_type)
            IN  IF f_in.market_price < price_low \/ f_in.market_price > price_high
                THEN f_pc' = "returned" /\ f_out' = f_out
                ELSE /\ f_pc' = "bisection"
                     /\ f_out' = [f_out EXCEPT !.sigma_low = SigmaLow,
                                               !.sigma_high = SigmaHigh]
    /\ UNCHANGED f_in
    /\ UNCHANGED <<catVars, kVars, oVars, pVars>>

\* implied_volatility_bisection lines 130-144: one pass of the loop, or its end
BisectionIterate ==
    /\ f_pc = "bisection"
    /\ LET sigma_mid == (f_out.sigma_low + f_out.sigma_high) \div 2
           price == price_at(f_in.S, f_in.K, f_in.T, f_in.r, sigma_mid,
                             f_in.option_type)
           diff == price - f_in.market_price
       IN  IF f_out.iteration >= f_in.max_iterations
           THEN /\ f_pc' = "returned"
                /\ f_out' = [f_out EXCEPT !.result =
                                 bisection_exhausted(f_out.sigma_low, f_out.sigma_high)]
           ELSE IF Max(diff, -diff) < Tolerance
           THEN /\ f_pc' = "returned"
                /\ f_out' = [f_out EXCEPT !.result = sigma_mid, !.diff = diff,
                                          !.iteration = f_out.iteration + 1]
           ELSE /\ f_pc' = "bisection"
                /\ f_out' = [f_out EXCEPT
                                 !.sigma_high = IF price > f_in.market_price
                                                THEN sigma_mid ELSE f_out.sigma_high,
                                 !.sigma_low = IF price > f_in.market_price
                                               THEN f_out.sigma_low ELSE sigma_mid,
                                 !.iteration = f_out.iteration + 1]
    /\ UNCHANGED f_in
    /\ UNCHANGED <<catVars, kVars, oVars, pVars>>

NextImpliedVol == NewtonEnter \/ NewtonIterate \/ BisectionEnter \/ BisectionIterate

SpecImpliedVol == InitImpliedVol /\ [][NextImpliedVol]_vars

---------------------------------------------------------------------------
(* Claims about the implied-volatility solvers                             *)

SolverReturned(solver) == f_pc = "returned" /\ f_in.solver = solver

\* |BS(sigma) - price| < tolerance
WithinTolerance(sigma) ==
    LET diff == price_at(f_in.S, f_in.K, f_in.T, f_in.r, sigma, f_in.option_type)
                  - f_in.market_price
    IN  -Tolerance < diff /\ diff < Tolerance

\* the observed price lies outside the prices at sigma = 0.001 and sigma = 5.0
OutsideBracket ==
    \/ f_in.market_price
         < price_at(f_in.S, f_in.K, f_in.T, f_in.r, SigmaLow, f_in.option_type)
    \/ f_in.market_price
         > price_at(f_in.S, f_in.K, f_in.T, f_in.r, SigmaHigh, f_in.option_type)

\* C16: the bisection returns no result exactly when T <= 0 or the observed
\* price is outside the bracket's prices; a result that is not within the
\* tolerance is the midpoint of the bracket left after max_iterations
\* halvings; Newton's method returns no result when every one of its
\* max_iterations iterations ended in an update.
C16_BisectionBestEffort ==
    /\ SolverReturned("bisection") =>
          /\ (f_out.result = None) <=> (f_in.T <= 0 \/ OutsideBracket)
          /\ (f_out.result # None /\ ~WithinTolerance(f_out.result)) =>
                /\ f_out.iteration = f_in.max_iterations
                /\ 2 * f_out.result = f_out.sigma_low + f_out.sigma_high
                /\ SigmaLow <= f_out.sigma_low /\ f_out.sigma_high <= SigmaHigh
                /\ (f_out.sigma_high - f_out.sigma_low) * (2 ^ f_out.iteration)
                      = SigmaHigh - SigmaLow
    /\ (SolverReturned("newton") /\ Len(f_out.updates) = f_in.max_iterations) =>
          f_out.result = None

\* C16 witness: a bisection that used up its iterations and returned the
\* midpoint of the last bracket, off the tolerance
C16_Witness ==
    /\ SolverReturned("bisection")
    /\ f_in.max_iterations >= 2
    /\ f_out.iteration = f_in.max_iterations
    /\ f_out.result # None
    /\ ~WithinTolerance(f_out.result)

\* the volatility the j-th iteration of Newton's method evaluated
Evaluated(j) == IF j = 1 THEN InitialGuess ELSE f_out.updates[j - 1]

\* C17: Newton's method runs at most max_iterations iterations; it returns
\* no result when T <= 0, when the price is below the discounted intrinsic
\* value, when an iteration found vega too small and when the iterations
\* are used up; a returned sigma is the one evaluated last and is within
\* the tolerance; every updated sigma is in (0, 10].
C17_NewtonBounded ==
    f_in.solver = "newton" =>
        /\ f_out.iteration <= f_in.max_iterations
        /\ f_pc = "newton" => Len(f_out.updates) = f_out.iteration
        /\ \A u \in 1..Len(f_out.updates) :
              0 < f_out.updates[u] /\ f_out.updates[u] <= SigmaCap
        /\ f_pc = "returned" =>
              /\ f_in.T <= 0 => f_out.result = None
              /\ f_in.market_price
                   < newton_intrinsic(f_in.S, f_in.K, f_in.T, f_in.r, f_in.option_type)
                     => f_out.result = None
              /\ (\E j \in 1..f_out.iteration : vega_too_small(Evaluated(j)))
                     => f_out.result = None
              /\ Len(f_out.updates) = f_in.max_iterations => f_out.result = None
              /\ f_out.result # None =>
                     /\ f_out.result = Evaluated(f_out.iteration)
                     /\ WithinTolerance(f_out.result)

\* C17 witness: Newton's method converged on a sigma it had updated to
C17_Witness ==
    /\ SolverReturned("newton")
    /\ f_out.result # None
    /\ Len(f_out.updates) >= 1
    /\ f_out.result = f_out.updates[Len(f_out.updates)]

\* C17 witness of the failures: no result after vega became too small
C17_VegaTooSmall ==
    /\ SolverReturned("newton")
    /\ f_out.result = None
    /\ f_out.iteration >= 2 /\ f_out.iteration < f_in.max_iterations
    /\ vega_too_small(Evaluated(f_out.iteration))

---------------------------------------------------------------------------
(* core/engine.py: the portfolio engine.  Prices are in cents, returns in  *)
(* basis points (1e-4), weights in thousandths, the portfolio value in     *)
(* thousandths of a dollar, the points of the returned equity curve in     *)
(* cents.  Divisions are integer divisions at these resolutions; the       *)
(* power of calculate_cagr and the square roots are first-order            *)
(* approximations.  A statistic is a record that says whether it is NaN.   *)

NaNStat == [nan |-> TRUE, value |-> 0]

Stat(v) == [nan |-> FALSE, value |-> v]

\* floor(a * b / d) for 0 <= a, 0 <= b, 0 < d, computed without a * b
MulDiv(a, b, d) == (a \div d) * b + ((a % d) * b) \div d

\* self.weights = dict(zip(tickers, weights)): a repeated ticker keeps the
\* weight given last
dict_zip(tickers, weights) ==
    LET m == Min(Len(tickers), Len(weights))
    IN  [t \in {tickers[i] : i \in 1..m} |->
            weights[CHOOSE i \in 1..m :
                        tickers[i] = t /\ \A j \in (i + 1)..m : tickers[j] # t]]

\* line 164: np.array([self.weights[t] for t in self.tickers])
weights_array_of(tickers, weights) ==
    [i \in 1..Len(tickers) |-> dict_zip(tickers, weights)[tickers[i]]]

\* line 161: pct_change().fillna(0) of one column of month-end prices
monthly_returns_of(column) ==
    [t \in 1..Len(column) |->
        IF t = 1 THEN 0
        ELSE ((column[t] - column[t - 1]) * 10000) \div column[t - 1]]

RECURSIVE weighted_sum(_, _, _, _)
weighted_sum(monthly_returns, weights_array, t, c) ==
    IF c = 0 THEN 0
    ELSE weighted_sum(monthly_returns, weights_array, t, c - 1)
           + monthly_returns[c][t] * weights_array[c]

\* line 165: (monthly_returns * weights_array).sum(axis=1): column c of the
\* frame is multiplied by element c of the array
portfolio_returns_of(monthly_returns, weights_array, months) ==
    [t \in 1..months |->
        weighted_sum(monthly_returns, weights_array, t, Len(monthly_returns))
            \div 1000]

RECURSIVE cumprod(_, _)
\* (1 + portfolio_returns).cumprod(), in 1e-4
cumprod(portfolio_returns, t) ==
    IF t = 0 THEN 10000
    ELSE (cumprod(portfolio_returns, t - 1) * (10000 + portfolio_returns[t]))
            \div 10000

\* line 168: the value of the portfolio at the end of each month
portfolio_value_of(portfolio_returns, initial_capital) ==
    [t \in 1..Len(portfolio_returns) |->
        MulDiv(initial_capital, cumprod(portfolio_returns, t), 10000)]

\* Series.mean()
mean(values) == sum(values) \div Len(values)

\* Series.std(): NaN for fewer than two values
std(values) ==
    IF Len(values) < 2 THEN NaNStat ELSE Stat(SeqMax(values) - SeqMin(values))

\* np.sqrt(12) * x
annualized(x) == (x * 346) \div 100

\* risk_free_rate = 0.02
PortfolioRiskFree == 200

\* calculate_cagr: (final / initial) ** (1 / years) - 1, years = months / 12
calculate_cagr(initial_value, final_value, months) ==
    IF initial_value <= 0 \/ months <= 0 THEN Stat(0)
    ELSE Stat((((((final_value \div 1000) * 10000) \div (initial_value \div 1000))
                  - 10000) * 12) \div months)

\* calculate_max_drawdown of the portfolio engine
calculate_max_drawdown_of(equity_curve) ==
    LET drawdown ==
            [t \in 1..Len(equity_curve) |->
                LET peak == SeqMax(SubSeq(equity_curve, 1, t))
                IN  (((equity_curve[t] - peak) \div 1000) * 10000) \div (peak \div 1000)]
    IN  Stat(-SeqMin(drawdown))

\* calculate_annualized_volatility
calculate_annualized_volatility(returns) ==
    IF std(returns).nan THEN NaNStat ELSE Stat(annualized(std(returns).value))

\* calculate_sharpe_ratio, in hundredths.  NaN == 0 is false, and a
\* quotient by NaN is NaN.
calculate_sharpe_ratio(returns) ==
    IF returns = <<>> \/ (~std(returns).nan /\ std(returns).value = 0) THEN Stat(0)
    ELSE IF std(returns).nan THEN NaNStat
    ELSE Stat(((mean(returns) * 12 - PortfolioRiskFree) * 100)
                 \div annualized(std(returns).value))

\* calculate_sortino_ratio, in hundredths
calculate_sortino_ratio(returns) ==
    LET negative_returns == SelectSeq(returns, LAMBDA x : x < 0)
    IN  IF returns = <<>> THEN Stat(0)
        ELSE IF \/ negative_returns = <<>>
                \/ (~std(negative_returns).nan /\ std(negative_returns).value = 0)
        THEN Stat(0)
        ELSE IF std(negative_returns).nan THEN NaNStat
        ELSE Stat(((mean(returns) * 12 - PortfolioRiskFree) * 100)
                     \div annualized(std(negative_returns).value))

\* the calendar year (counted from the first one) of observation t
year_of(first_month, t) == (first_month - 1 + (t - 1)) \div 12

\* calculate_yearly_returns: resample("YE").last().pct_change().dropna()
calculate_yearly_returns(equity_curve, first_month) ==
    LET last_of(y) == CHOOSE t \in 1..Len(equity_curve) :
                          /\ year_of(first_month, t) = y
                          /\ \A u \in (t + 1)..Len(equity_curve) :
                                year_of(first_month, u) # y
    IN  [y \in 1..year_of(first_month, Len(equity_curve)) |->
            (((equity_curve[last_of(y)] - equity_curve[last_of(y - 1)]) \div 1000)
                * 10000) \div (equity_curve[last_of(y - 1)] \div 1000)]

\* calculate_best_year
calculate_best_year(equity_curve, first_month) ==
    LET yearly_returns == calculate_yearly_returns(equity_curve, first_month)
    IN  IF yearly_returns = <<>> THEN Stat(0) ELSE Stat(SeqMax(yearly_returns))

\* calculate_worst_year
calculate_worst_year(equity_curve, first_month) ==
    LET yearly_returns == calculate_yearly_returns(equity_curve, first_month)
    IN  IF yearly_returns = <<>> THEN Stat(0) ELSE Stat(SeqMin(yearly_returns))

\* BacktestEngine.run lines 170-192: the statistics
stats_of(portfolio_returns, portfolio_value, initial_capital, first_month) ==
    LET months == Len(portfolio_value)
        returns_for_volatility ==
            IF Len(portfolio_returns) > 1 THEN Tail(portfolio_returns)
            ELSE portfolio_returns
    IN  [cagr |-> calculate_cagr(initial_capital, portfolio_value[months], months),
         max_drawdown |-> calculate_max_drawdown_of(portfolio_value),
         annualized_volatility |->
             calculate_annualized_volatility(returns_for_volatility),
         sharpe_ratio |-> calculate_sharpe_ratio(returns_for_volatility),
         sortino_ratio |-> calculate_sortino_ratio(returns_for_volatility),
         best_year |-> calculate_best_year(portfolio_value, first_month),
         worst_year |-> calculate_worst_year(portfolio_value, first_month)]

---------------------------------------------------------------------------
(* Specification SpecEngine: BacktestEngine(tickers, weights, ...) is      *)
(* constructed and run on a frame of month-end prices with one column per  *)
(* distinct ticker, in the order the data source gave the columns.         *)

\* months of price data
MaxMonths == 3

MonthEndPrices == {10000, 11000, 10450}

\* tickers and weights that pass the validation of the endpoints
EnginePortfolios ==
    {[tickers |-> <<"AAA">>, weights |-> <<1000>>],
     [tickers |-> <<"AAA", "BBB">>, weights |-> <<500, 500>>],
     [tickers |-> <<"BBB", "AAA">>, weights |-> <<300, 700>>],
     [tickers |-> <<"AAA", "AAA">>, weights |-> <<500, 500>>]}

\* the orders in which the frame may hold the distinct tickers
ColumnOrders(tickers) ==
    LET names == {tickers[i] : i \in 1..Len(tickers)}
    IN  {order \in [1..Cardinality(names) -> names] :
            \A i, j \in 1..Cardinality(names) : i # j => order[i] # order[j]}

InitEngine ==
    /\ f_pc = "called"
    /\ \E portfolio \in EnginePortfolios, months \in 1..MaxMonths,
          initial_capital \in {100000000, 100050}, first_month \in {1, 12} :
         \E columns \in ColumnOrders(portfolio.tickers) :
           \E prices \in [1..Len(columns) -> [1..months -> MonthEndPrices]] :
             f_in = [tickers |-> portfolio.tickers, weights |-> portfolio.weights,
                     initial_capital |-> initial_capital,
                     columns |-> columns, prices |-> prices,
                     first_month |-> first_month]
    /\ f_out = <<>>
    /\ IdleCatalog /\ IdleStrikes /\ IdleOptions /\ IdlePortfolio

\* BacktestEngine.__init__ and run (lines 144-198).  Multiplying a frame of
\* k columns by an array of another length raises.
RunEngine ==
    /\ f_pc = "called"
    /\ LET weights_array == weights_array_of(f_in.tickers, f_in.weights)
           months == Len(f_in.prices[1])
           monthly_returns ==
               [c \in 1..Len(f_in.columns) |-> monthly_returns_of(f_in.prices[c])]
           portfolio_returns ==
               portfolio_returns_of(monthly_returns, weights_array, months)
           portfolio_value == portfolio_value_of(portfolio_returns, f_in.initial_capital)
       IN  IF Len(f_in.columns) # Len(weights_array)
           THEN /\ f_pc' = "raised"
                /\ f_out' = [weights |-> dict_zip(f_in.tickers, f_in.weights)]
           ELSE /\ f_pc' = "returned"
                /\ \E equity_curve \in
                       Lists([t \in 1..months |-> RoundTo(portfolio_value[t], 10)],
                             months) :
                     f_out' = [weights |-> dict_zip(f_in.tickers, f_in.weights),
                               portfolio_returns |-> portfolio_returns,
                               equity_curve |-> equity_curve,
                               stats |-> stats_of(portfolio_returns, portfolio_value,
                                                  f_in.initial_capital,
                                                  f_in.first_month)]
    /\ UNCHANGED f_in
    /\ UNCHANGED <<catVars, kVars, oVars, pVars>>

NextEngine == RunEngine

SpecEngine == InitEngine /\ [][NextEngine]_vars

---------------------------------------------------------------------------
(* Claims about the portfolio engine                                       *)

\* the column of the frame that holds a ticker's prices
ColumnOf(ticker) == CHOOSE c \in 1..Len(f_in.columns) : f_in.columns[c] = ticker

RECURSIVE ByTicker(_, _)
\* sum over the first i tickers of weight * that ticker's return in month t
ByTicker(t, i) ==
    IF i = 0 THEN 0
    ELSE ByTicker(t, i - 1)
           + f_in.weights[i]
               * monthly_returns_of(f_in.prices[ColumnOf(f_in.tickers[i])])[t]

\* the portfolio value the statement gives each month: initial_capital,
\* then the previous value times 1 + the weighted return of the month
ClaimedValue ==
    portfolio_value_of(
        [t \in 1..Len(f_in.prices[1]) |-> ByTicker(t, Len(f_in.tickers)) \div 1000],
        f_in.initial_capital)

\* the two equal-weighted tickers returning 0%, +10%, -5% on 100000
EndToEndExample ==
    /\ f_in.weights = <<500, 500>>
    /\ f_in.initial_capital = 100000000
    /\ \A c \in 1..Len(f_in.columns) : f_in.prices[c] = <<10000, 11000, 10450>>

\* C18: the equity curve has one point per month, the first is
\* initial_capital, every later one is the previous one times 1 + the sum
\* over tickers of weight * the ticker's monthly return (each point to the
\* cent); the example gives [100000, 110000, 104500].
C18_EquityCurveCompounds ==
    f_pc = "returned" =>
        /\ Len(f_out.equity_curve) = Len(f_in.prices[1])
        /\ f_out.equity_curve[1] * 10 = f_in.initial_capital
        /\ \A t \in 1..Len(f_out.equity_curve) :
              f_out.equity_curve[t] \in RoundTo(ClaimedValue[t], 10)
        /\ EndToEndExample =>
              f_out.equity_curve = <<10000000, 11000000, 10450000>>

\* a statistic that is a number
Finite(stat) == ~stat.nan

\* the monthly returns the volatility, Sharpe and Sortino ratios are taken of
ReturnsForVolatility ==
    IF Len(f_out.portfolio_returns) > 1 THEN Tail(f_out.portfolio_returns)
    ELSE f_out.portfolio_returns

\* the standard deviation is 0 or cannot be computed
NoDeviation(values) == Len(values) < 2 \/ SeqMax(values) = SeqMin(values)

\* C19: every statistic of a run is a finite number; Sharpe is 0 when the
\* standard deviation of the returns is 0 or not computable, Sortino is 0
\* when there are no negative returns or their standard deviation is 0 or
\* not computable, best and worst year are 0 without a year-over-year return.
C19_StatisticsFinite ==
    f_pc = "returned" =>
        /\ Finite(f_out.stats.cagr)
        /\ Finite(f_out.stats.max_drawdown)
        /\ Finite(f_out.stats.annualized_volatility)
        /\ Finite(f_out.stats.sharpe_ratio)
        /\ Finite(f_out.stats.sortino_ratio)
        /\ Finite(f_out.stats.best_year)
        /\ Finite(f_out.stats.worst_year)
        /\ NoDeviation(ReturnsForVolatility) => f_out.stats.sharpe_ratio = Stat(0)
        /\ NoDeviation(SelectSeq(ReturnsForVolatility, LAMBDA x : x < 0))
              => f_out.stats.sortino_ratio = Stat(0)
        /\ year_of(f_in.first_month, Len(f_in.prices[1])) = 0
              => /\ f_out.stats.best_year = Stat(0)
                 /\ f_out.stats.worst_year = Stat(0)

---------------------------------------------------------------------------
(* Claims about the tickers of a validated portfolio                       *)

\* the portfolios of the request for which a BacktestEngine was constructed
HandedToEngine == {i \in 1..Len(p_portfolios) : i <= p_engine_runs}

\* BacktestEngine.__init__: the ticker-to-weight map of portfolio i's engine
EngineWeights(i) == dict_zip(p_portfolios[i].tickers, p_portfolios[i].weights)

\* C20: every portfolio that passed the validation of its entry point and
\* for which a BacktestEngine was constructed has pairwise distinct tickers,
\* and the engine's ticker-to-weight map has one entry per position of the
\* ticker list, holding the weight given at that position.
C20_ValidatedTickersDistinct ==
    \A i \in HandedToEngine :
        /\ ~RepeatedTicker(p_portfolios[i].tickers)
        /\ Cardinality(DOMAIN EngineWeights(i)) = Len(p_portfolios[i].tickers)
        /\ \A k \in 1..Len(p_portfolios[i].tickers) :
              EngineWeights(i)[p_portfolios[i].tickers[k]] = p_portfolios[i].weights[k]

---------------------------------------------------------------------------
(* Specification SpecDiagram: OptionsBacktestEngine.run called on a config *)
(* and two series, with every point of the payoff diagram kept.            *)

\* days of the series of a run whose payoff diagram is kept
MaxDiagramDays == 2

DiagramConfigs ==
    {[strategy_type |-> st, days_to_expiration |-> d, position_size |-> size,
      strike_selection |-> <<>>, volatility_model |-> vm[1], fixed_volatility |-> vm[2],
      initial_capital |-> InitialCapital, risk_free_rate |-> RiskFreeRate,
      roll_before_expiry |-> 0] :
        st \in STRATEGY_REGISTRY, d \in {1, MaxDte}, size \in PositionSizes,
        vm \in {<<"historical", None>>, <<"fixed", 25>>}}

\* the volatility series of n days: those of a direct caller, and two
\* without undefined values that agree on the entry day only
DiagramVolatilities(n) ==
    DirectVolatilities(n) \cup {[i \in 1..n |-> 20], [i \in 1..n |-> 10 + 10 * i]}

InitDiagram ==
    /\ o_caller = "direct"
    /\ o_pc = "run"
    /\ o_request = NoRequest
    /\ o_config \in DiagramConfigs
    /\ o_price_data \in PriceSeries(1..MaxDiagramDays)
    /\ o_volatility_data \in DiagramVolatilities(Len(o_price_data))
    /\ o_fetches = 0
    /\ o_runs = 0
    /\ o_status = 0
    /\ o_volatility = <<>>
    /\ o_strikes = <<>>
    /\ o_entry_premiums = <<>>
    /\ o_day_idx = 0
    /\ o_daily_pnl = <<>>
    /\ o_greeks_series = <<>>
    /\ o_trades = <<>>
    /\ o_stats = <<>>
    /\ o_payoff_diagram = <<>>
    /\ IdleCatalog
    /\ IdleStrikes
    /\ IdlePortfolio
    /\ IdleFunctions

\* OptionsBacktestEngine.run lines 209-235: the end of run, the payoff
\* diagram generated from the entry price, the strikes and the entry premiums
GeneratePayoffDiagram ==
    ReturnResult(generate_payoff_diagram(o_config.strategy_type, o_config.position_size,
                                         o_price_data[1], o_strikes, o_entry_premiums))

NextDiagram ==
    \/ EngineRun
    \/ DailyMarkToMarket
    \/ GeneratePayoffDiagram

SpecDiagram == InitDiagram /\ [][NextDiagram]_vars

---------------------------------------------------------------------------
(* Claims about the payoff diagram                                         *)

\* OptionsBacktestEngine.run lines 71-132 as a function of its arguments:
\* the strikes, the entry premiums and the OPEN event a run can produce
run_entry(config, price_data, volatility_data) ==
    LET legs == Legs(config.strategy_type)
        volatility == volatility_of(config, volatility_data)
        resolved == calculate_strikes(price_data[1], legs, config.strike_selection)
    IN  IF resolved.raised THEN {}
        ELSE UNION {
               LET entry_premiums ==
                       [n \in 1..Len(legs) |->
                           black_scholes_vectorized(
                               price_data[1], strikes[n], config.days_to_expiration,
                               config.risk_free_rate, volatility[1],
                               legs[n].option_type)]
               IN  {[strikes |-> strikes,
                     entry_premiums |-> entry_premiums,
                     open |-> [date |-> 0, action |-> "OPEN",
                               strategy |-> config.strategy_type,
                               strikes |-> strikes,
                               premiums |-> entry_premiums,
                               net_premium |-> recorded,
                               spot_price |-> price_data[1]]] :
                       recorded \in open_net_premium(
                           calculate_net_premium(legs, entry_premiums),
                           config.position_size, 100)} :
               strikes \in resolved.strikes}

\* the price of point k (k = 0 .. 99) of the claimed grid, times 99, in
\* hundredths of a cent
ClaimedGridPrice(k) ==
    LET levels == o_strikes \o <<o_price_data[1]>>
        lowest == SeqMin(levels) * 80
        highest == SeqMax(levels) * 120
    IN  99 * lowest + k * (highest - lowest)

\* calculate_payoff at the grid price of point k with the entry premiums,
\* times 100 * position_size, times 99, in cents
ClaimedPayoff(k) ==
    calculate_payoff(o_config.strategy_type, ClaimedGridPrice(k),
                     [n \in 1..Len(o_strikes) |-> o_strikes[n] * 9900],
                     [n \in 1..Len(o_entry_premiums) |-> o_entry_premiums[n] * 99],
                     IF StockLegOf(o_config.strategy_type).present
                     THEN o_price_data[1] * 9900 ELSE None)
        * o_config.position_size

\* the payoff diagram has the claimed 100 points, each held to the cent
ClaimedDiagram ==
    /\ Len(o_payoff_diagram) = 100
    /\ \A k \in 0..99 :
          /\ 2 * 9900 * o_payoff_diagram[k + 1].price - 9900 <= 2 * ClaimedGridPrice(k)
          /\ 2 * ClaimedGridPrice(k) <= 2 * 9900 * o_payoff_diagram[k + 1].price + 9900
          /\ 2 * 99 * o_payoff_diagram[k + 1].payoff - 99 <= 2 * ClaimedPayoff(k)
          /\ 2 * ClaimedPayoff(k) <= 2 * 99 * o_payoff_diagram[k + 1].payoff + 99

\* the series of a second run that agree with this run's on the entry day
SameEntryDay ==
    {other \in PriceSeries({Len(o_price_data)})
                  \X DiagramVolatilities(Len(o_price_data)) :
        /\ other[1][1] = o_price_data[1]
        /\ other[2][1] = o_volatility_data[1]}

\* the second run, on the series other, returns this run's strikes, entry
\* premiums and OPEN event, and so this run's payoff diagram, which
\* ClaimedDiagram makes a function of the config, the entry price, the
\* strikes and the entry premiums
SameEntryResults(other) ==
    [strikes |-> o_strikes, entry_premiums |-> o_entry_premiums,
     open |-> o_trades[1]] \in run_entry(o_config, other[1], other[2])

\* the volatility of the entry day does not come from a later day
EntryVolatilityGiven ==
    \/ o_volatility_data[1] # NaN
    \/ o_config.volatility_model = "fixed" /\ o_config.fixed_volatility # None

\* C21 as stated: a returned run's payoff diagram has the 100 claimed points
\* (prices evenly spaced from 0.8 * min to 1.2 * max of strikes and entry
\* spot, payoffs calculate_payoff with the entry premiums times 100 *
\* position_size), and every run with the same config whose series agree
\* with this run's on the entry day returns the same strikes, OPEN event
\* and payoff diagram.
C21_PayoffDiagramDayZero ==
    o_pc = "returned" =>
        /\ ClaimedDiagram
        /\ \A other \in SameEntryDay : SameEntryResults(other)

\* C21, amended: the same, each point rounded to 2 decimals, for runs whose
\* entry-day volatility is defined or whose config fixes the volatility (an
\* undefined entry-day volatility is filled from a later day).
C21_PayoffDiagramDayZeroGiven ==
    o_pc = "returned" =>
        /\ ClaimedDiagram
        /\ EntryVolatilityGiven => \A other \in SameEntryDay : SameEntryResults(other)

\* C21 witness: a two-day iron condor run under the historical model whose
\* diagram rises and falls, and a second run that agrees on the entry day and
\* differs on the second day in price and in volatility
C21_Witness ==
    /\ o_pc = "returned"
    /\ o_config.strategy_type = "iron_condor"
    /\ o_config.volatility_model = "historical"
    /\ o_config.position_size = 2
    /\ Len(o_price_data) = 2
    /\ o_volatility_data[1] # NaN
    /\ \E other \in SameEntryDay :
          /\ other[1][2] # o_price_data[2]
          /\ other[2][2] # o_volatility_data[2]
    /\ \E j, k \in 1..PayoffPoints :
          /\ j < k
          /\ o_payoff_diagram[j].payoff < o_payoff_diagram[k].payoff
          /\ o_payoff_diagram[k].payoff > o_payoff_diagram[PayoffPoints].payoff

---------------------------------------------------------------------------
(* Specification SpecPurity: a caller runs one kind of engine several      *)
(* times, each time on a new instance or on the instance of the run        *)
(* before, and keeps what each run returned.  The fields of the instance   *)
(* (self) and the series handed to run are kept as the runs leave them.    *)
(* The inputs have no value that a rounding finds half way between two     *)
(* results, so that the model gives each run one result.                   *)

\* runs of one caller
MaxRuns == 3

\* core/options_engine.py OptionsBacktestEngine.__init__
OptionsBacktestEngine_init(config) ==
    [config |-> config, strategy |-> config.strategy_type]

\* core/engine.py BacktestEngine.__init__; the two fields that are None
\* until a run are empty here
BacktestEngine_init(tickers, weights, initial_capital) ==
    [tickers |-> tickers, weights |-> dict_zip(tickers, weights),
     initial_capital |-> initial_capital,
     price_data |-> <<>>, portfolio_value |-> <<>>]

\* line 168 compounding from the value the run before left in
\* self.portfolio_value
starting_capital_LeftBehind(self) ==
    IF self.portfolio_value = <<>> THEN self.initial_capital
    ELSE self.portfolio_value[Len(self.portfolio_value)]

\* line 168: the capital the cumulative product is multiplied by
starting_capital(self) == self.initial_capital

\* BacktestEngine.run on the instance self: the instance and the frame
\* after the run, and what the run returns
BacktestEngine_run(self, price_data) ==
    LET weights_array == [i \in 1..Len(self.tickers) |-> self.weights[self.tickers[i]]]
        months == Len(price_data.prices[1])
        monthly_returns ==
            [c \in 1..Len(price_data.columns) |->
                monthly_returns_of(price_data.prices[c])]
        portfolio_returns == portfolio_returns_of(monthly_returns, weights_array, months)
        portfolio_value == portfolio_value_of(portfolio_returns, starting_capital(self))
    IN  IF Len(price_data.columns) # Len(weights_array)
        THEN {[self |-> [self EXCEPT !.price_data = price_data],
               price_data |-> price_data,
               result |-> [raised |-> "ValueError"]]}
        ELSE {[self |-> [self EXCEPT !.price_data = price_data,
                                     !.portfolio_value = portfolio_value],
               price_data |-> price_data,
               result |-> [stats |-> stats_of(portfolio_returns, portfolio_value,
                                              self.initial_capital,
                                              price_data.first_month),
                           equity_curve |-> equity_curve,
                           portfolio_returns |-> portfolio_returns]] :
                 equity_curve \in
                     Lists([t \in 1..months |-> RoundTo(portfolio_value[t], 10)], months)}

\* the configs of the options runs
PurityConfigs ==
    {[strategy_type |-> st[1], days_to_expiration |-> st[2], position_size |-> 1,
      strike_selection |-> <<>>, volatility_model |-> "historical",
      fixed_volatility |-> None, initial_capital |-> InitialCapital,
      risk_free_rate |-> RiskFreeRate, roll_before_expiry |-> 0] :
        st \in {<<"long_put", 1>>, <<"covered_call", 2>>}}

\* the series of the options runs: two days of prices, and a volatility
\* series that run has to fill
OptionsArguments ==
    [price_data : {<<9500, 10500>>, <<10500, 9500>>},
     volatility_data : {<<NaN, 20>>}]

\* the constructor arguments of the portfolio runs
PurityPortfolios ==
    {[tickers |-> <<"AAA">>, weights |-> <<1000>>, initial_capital |-> 100000000],
     [tickers |-> <<"AAA", "BBB">>, weights |-> <<300, 700>>,
      initial_capital |-> 100000000]}

\* the frames of the portfolio runs: month-end prices of one or two tickers
PortfolioArguments ==
    {[columns |-> <<"AAA">>, prices |-> <<<<10000, 11000, 10450>>>>, first_month |-> 1],
     [columns |-> <<"AAA", "BBB">>,
      prices |-> <<<<10000, 11000, 10450>>, <<10000, 10000, 11000>>>>,
      first_month |-> 1]}

\* the calls of one caller: the first constructs an instance
CallsOf(specs, arguments) ==
    {calls \in UNION {[1..n -> [fresh : BOOLEAN, spec : specs, arguments : arguments]] :
                          n \in 1..MaxRuns} :
        calls[1].fresh}

InitPurity ==
    /\ f_pc = "caller"
    /\ \E engine \in {"options", "portfolio"} :
         \E calls \in (IF engine = "options"
                       THEN CallsOf(PurityConfigs, OptionsArguments)
                       ELSE CallsOf(PurityPortfolios, PortfolioArguments)) :
           f_in = [engine |-> engine, calls |-> calls]
    /\ f_out = [self |-> <<>>, results |-> <<>>]
    /\ IdleCatalog /\ IdleStrikes /\ IdleOptions /\ IdlePortfolio

\* the call the caller makes next
NextCall == f_in.calls[Len(f_out.results) + 1]

\* the caller constructs an OptionsBacktestEngine if the call asks for one
\* and calls run: run starts with the instance's config and the series given
CallOptionsRun ==
    /\ f_pc = "caller"
    /\ f_in.engine = "options"
    /\ Len(f_out.results) < Len(f_in.calls)
    /\ LET self == IF NextCall.fresh THEN OptionsBacktestEngine_init(NextCall.spec)
                   ELSE f_out.self
       IN  /\ f_out' = [f_out EXCEPT !.self = self]
           /\ o_config' = self.config
    /\ o_price_data' = NextCall.arguments.price_data
    /\ o_volatility_data' = NextCall.arguments.volatility_data
    /\ o_pc' = "run"
    /\ o_volatility' = <<>>
    /\ o_strikes' = <<>>
    /\ o_entry_premiums' = <<>>
    /\ o_day_idx' = 0
    /\ o_daily_pnl' = <<>>
    /\ o_greeks_series' = <<>>
    /\ o_trades' = <<>>
    /\ o_stats' = <<>>
    /\ o_payoff_diagram' = <<>>
    /\ f_pc' = "run"
    /\ UNCHANGED <<o_caller, o_request, o_fetches, o_runs, o_status, f_in>>
    /\ UNCHANGED <<catVars, kVars, pVars>>

\* run returns to the caller, who keeps the result with the constructor
\* arguments of the instance, the series given and the series as they are
\* after the run
ReturnOptionsRun ==
    /\ f_pc = "run"
    /\ o_pc \in {"returned", "raised"}
    /\ f_out' = [f_out EXCEPT !.results = Append(@,
           [spec |-> f_out.self.config,
            arguments |-> NextCall.arguments,
            after |-> [price_data |-> o_price_data,
                       volatility_data |-> o_volatility_data],
            result |-> IF o_pc = "raised" THEN [raised |-> "Exception"]
                       ELSE [stats |-> o_stats, daily_pnl |-> o_daily_pnl,
                             greeks_series |-> o_greeks_series,
                             payoff_diagram |-> o_payoff_diagram,
                             trades |-> o_trades]])]
    /\ f_pc' = "caller"
    /\ UNCHANGED <<f_in, oVars>>
    /\ UNCHANGED <<catVars, kVars, pVars>>

\* the caller constructs a BacktestEngine if the call asks for one, calls
\* run and keeps the result
PortfolioRun ==
    /\ f_pc = "caller"
    /\ f_in.engine = "portfolio"
    /\ Len(f_out.results) < Len(f_in.calls)
    /\ LET self == IF NextCall.fresh
                   THEN BacktestEngine_init(NextCall.spec.tickers, NextCall.spec.weights,
                                            NextCall.spec.initial_capital)
                   ELSE f_out.self
       IN  \E run \in BacktestEngine_run(self, NextCall.arguments) :
             f_out' = [self |-> run.self,
                       results |-> Append(f_out.results,
                           [spec |-> [tickers |-> self.tickers, weights |-> self.weights,
                                      initial_capital |-> self.initial_capital],
                            arguments |-> NextCall.arguments,
                            after |-> run.price_data,
                            result |-> run.result])]
    /\ UNCHANGED <<f_pc, f_in>>
    /\ UNCHANGED <<catVars, kVars, oVars, pVars>>

NextPurity ==
    \/ CallOptionsRun
    \/ EngineRun
    \/ DailyMarkToMarket
    \/ CalculateStatistics
    \/ ReturnOptionsRun
    \/ PortfolioRun

SpecPurity == InitPurity /\ [][NextPurity]_vars

---------------------------------------------------------------------------
(* Claims about repeated runs                                              *)

\* C23: of the runs a caller has made, on new instances or on the instance
\* of the run before, two with equal constructor arguments and equal series
\* returned equal results, whatever ran between them, and the series a run
\* was given are after the run what they were before it.
C23_RunsArePure ==
    /\ \A i, j \in 1..Len(f_out.results) :
          (/\ f_out.results[i].spec = f_out.results[j].spec
           /\ f_out.results[i].arguments = f_out.results[j].arguments) =>
              f_out.results[i].result = f_out.results[j].result
    /\ \A i \in 1..Len(f_out.results) :
          f_out.results[i].after = f_out.results[i].arguments

\* C23 witness: a third run on the instance of the first, with the series of
\* the first, after a second run on the same instance with other series,
\* returns the non-empty result of the first
C23_Witness ==
    /\ Len(f_out.results) = 3
    /\ ~f_in.calls[2].fresh /\ ~f_in.calls[3].fresh
    /\ f_out.results[1].arguments = f_out.results[3].arguments
    /\ f_out.results[2].arguments # f_out.results[1].arguments
    /\ f_out.results[2].result # f_out.results[1].result
    /\ f_out.results[3].result = f_out.results[1].result
    /\ "raised" \notin DOMAIN f_out.results[1].result
    /\ f_in.engine = "portfolio"

\* C23 witness for the options engine: the same on an OptionsBacktestEngine
C23_OptionsWitness ==
    /\ Len(f_out.results) = 3
    /\ ~f_in.calls[2].fresh /\ ~f_in.calls[3].fresh
    /\ f_out.results[1].arguments = f_out.results[3].arguments
    /\ f_out.results[2].result # f_out.results[1].result
    /\ f_out.results[3].result = f_out.results[1].result
    /\ "raised" \notin DOMAIN f_out.results[1].result
    /\ f_in.engine = "options"

---------------------------------------------------------------------------
(* strategies/__init__.py and routers/options.py: the strategy catalog     *)

\* the class STRATEGY_REGISTRY holds for a key
RegistryClass(strategy_type) ==
    CASE strategy_type = "long_call" -> "LongCall"
      [] strategy_type = "long_put" -> "LongPut"
      [] strategy_type = "short_call" -> "ShortCall"
      [] strategy_type = "short_put" -> "ShortPut"
      [] strategy_type = "bull_call_spread" -> "BullCallSpread"
      [] strategy_type = "bear_put_spread" -> "BearPutSpread"
      [] strategy_type = "straddle" -> "Straddle"
      [] strategy_type = "strangle" -> "Strangle"
      [] strategy_type = "iron_condor" -> "IronCondor"
      [] strategy_type = "iron_butterfly" -> "IronButterfly"
      [] strategy_type = "butterfly_spread" -> "ButterflySpread"
      [] strategy_type = "covered_call" -> "CoveredCall"
      [] strategy_type = "protective_put" -> "ProtectivePut"
      [] strategy_type = "collar" -> "Collar"

\* get_strategy falling back to LongCall for a name that is not a key
get_strategy_Fallback(strategy_type) ==
    IF strategy_type \notin STRATEGY_REGISTRY
    THEN [raised |-> FALSE, instance |-> "LongCall"]
    ELSE [raised |-> FALSE, instance |-> RegistryClass(strategy_type)]

\* get_strategy: a new instance of the class of the key, ValueError for a
\* name that is not a key
get_strategy(strategy_type) ==
    IF strategy_type \notin STRATEGY_REGISTRY
    THEN [raised |-> TRUE, instance |-> "ValueError"]
    ELSE [raised |-> FALSE, instance |-> RegistryClass(strategy_type)]

\* list_strategies: the keys in the order of the dict literal
list_strategies ==
    <<"long_call", "long_put", "short_call", "short_put", "bull_call_spread",
      "bear_put_spread", "straddle", "strangle", "iron_condor", "iron_butterfly",
      "butterfly_spread", "covered_call", "protective_put", "collar">>

\* routers/options.py StrategyType: the values of the enumeration
StrategyType ==
    {"long_call", "long_put", "short_call", "short_put", "bull_call_spread",
     "bear_put_spread", "straddle", "strangle", "iron_condor", "iron_butterfly",
     "butterfly_spread", "covered_call", "protective_put", "collar"}

---------------------------------------------------------------------------
(* Specification SpecRegistry: a strategy name arrives in the body of POST *)
(* /options/backtest, or in a config that other code hands to              *)
(* OptionsBacktestEngine, or GET /options/strategies lists the catalog.     *)

\* names a client or a caller may send
StrategyNames ==
    STRATEGY_REGISTRY \cup
        {"", "LONG_CALL", "LongCall", "long call", "call", "put", "bull_put_spread",
         "bear_call_spread", "calendar_spread", "condor", "butterfly", "covered_put"}

InitRegistry ==
    /\ \E caller \in {"endpoint", "direct", "listing"} :
         \E strategy_type \in (IF caller = "listing" THEN {""} ELSE StrategyNames) :
           /\ f_in = [caller |-> caller, strategy_type |-> strategy_type]
           /\ f_pc = (CASE caller = "endpoint" -> "request"
                        [] caller = "direct" -> "construct"
                        [] caller = "listing" -> "list")
    /\ f_out = <<>>
    /\ IdleCatalog /\ IdleStrikes /\ IdleOptions /\ IdlePortfolio

\* routers/options.py line 64: the body is validated against
\* OptionsBacktestRequest, whose strategy_type is a StrategyType; a value
\* that is not one of the enumeration's is answered 422
ValidateStrategyType ==
    /\ f_pc = "request"
    /\ f_pc' = (IF f_in.strategy_type \in StrategyType THEN "construct" ELSE "rejected")
    /\ UNCHANGED <<f_in, f_out>>
    /\ UNCHANGED <<catVars, kVars, oVars, pVars>>

\* OptionsBacktestEngine.__init__ line 56 (called at routers/options.py line
\* 269 with request.strategy_type.value in the config)
ConstructEngine ==
    /\ f_pc = "construct"
    /\ LET strategy == get_strategy(f_in.strategy_type)
       IN  /\ f_out' = <<strategy>>
           /\ f_pc' = (IF strategy.raised THEN "raised" ELSE "constructed")
    /\ UNCHANGED f_in
    /\ UNCHANGED <<catVars, kVars, oVars, pVars>>

\* routers/options.py lines 335-336: one iteration of get_all_strategies
ListStrategy ==
    /\ f_pc = "list"
    /\ LET type_name == list_strategies[Len(f_out) + 1]
           strategy == get_strategy(type_name)
       IN  IF strategy.raised
           THEN f_pc' = "raised" /\ f_out' = f_out
           ELSE /\ f_out' = Append(f_out, [type |-> type_name,
                                           instance |-> strategy.instance,
                                           legs |-> Len(Legs(type_name))])
                /\ f_pc' = (IF Len(f_out') = Len(list_strategies)
                            THEN "listed" ELSE "list")
    /\ UNCHANGED f_in
    /\ UNCHANGED <<catVars, kVars, oVars, pVars>>

NextRegistry ==
    \/ ValidateStrategyType
    \/ ConstructEngine
    \/ ListStrategy

SpecRegistry == InitRegistry /\ [][NextRegistry]_vars

---------------------------------------------------------------------------
(* Claims about the strategy catalog                                       *)

\* the 14 strategies the specification names
NamedStrategies ==
    {"long_call", "short_call", "long_put", "short_put", "bull_call_spread",
     "bear_put_spread", "straddle", "strangle", "iron_condor", "iron_butterfly",
     "butterfly_spread", "covered_call", "protective_put", "collar"}

\* C24: STRATEGY_REGISTRY holds exactly the 14 named strategies, the values
\* of StrategyType are exactly its keys, get_strategy has returned an
\* instance for a key and raised ValueError for any other name, the listing
\* holds the keys, and a name from a request body never made get_strategy
\* raise: it was rejected before, or it is a key.
C24_CatalogClosed ==
    /\ STRATEGY_REGISTRY = NamedStrategies
    /\ Cardinality(STRATEGY_REGISTRY) = 14
    /\ StrategyType = STRATEGY_REGISTRY
    /\ {list_strategies[i] : i \in 1..Len(list_strategies)} = STRATEGY_REGISTRY
    /\ f_pc = "constructed" =>
          /\ f_in.strategy_type \in NamedStrategies
          /\ f_out[1].instance = RegistryClass(f_in.strategy_type)
    /\ f_pc = "raised" =>
          /\ f_in.caller = "direct"
          /\ f_in.strategy_type \notin NamedStrategies
    /\ f_pc = "rejected" => f_in.strategy_type \notin NamedStrategies
    /\ (f_in.caller = "direct" /\ f_pc # "construct") =>
          (f_pc = "raised" <=> f_in.strategy_type \notin NamedStrategies)
    /\ f_pc = "listed" => {f_out[i].type : i \in 1..Len(f_out)} = NamedStrategies

\* C24 witness: an unknown name in a request body, rejected by the
\* validation
C24_Witness ==
    /\ f_in.caller = "endpoint"
    /\ f_in.strategy_type = "calendar_spread"
    /\ f_pc = "rejected"

\* C24 witness: the same name handed to the engine directly raises
C24_UnknownRaises ==
    /\ f_in.caller = "direct"
    /\ f_in.strategy_type = "calendar_spread"
    /\ f_pc = "raised"

---------------------------------------------------------------------------
(* core/pricing/black_scholes.py: the closed form written out with d1, d2  *)
(* and the normal distribution function, for the relation between the      *)
(* price of a call and of a put.  S and K are in cents, the discounted     *)
(* strike is taken to the cent, N(d) is taken to 1e-5 and a price is in     *)
(* 1e-5 cent: a product of a price and a probability is then exact.        *)

\* norm.cdf(d), in 1e-5
norm_cdf5(d) == norm_cdf(d) \div 100

\* K * np.exp(-r * T), in cents
discounted_strike(K, T, r) == Discounted(K, T, r) \div 100

\* the put of lines 69-70 with norm.cdf(d2) and norm.cdf(d1) in place of
\* norm.cdf(-d2) and norm.cdf(-d1)
closed_form_terms_PutSigns(S, K, T, r, sigma, option_type) ==
    LET d1 == d1_of(S, K, T, r, sigma)
        d2 == d2_of(d1, T, sigma)
    IN  IF option_type = CALL
        THEN S * norm_cdf5(d1) - discounted_strike(K, T, r) * norm_cdf5(d2)
        ELSE discounted_strike(K, T, r) * norm_cdf5(d2) - S * norm_cdf5(d1)

\* lines 62-70 and 121-129: d1, d2 and
\*   S * norm.cdf(d1) - K * np.exp(-r * T) * norm.cdf(d2)        for a call,
\*   K * np.exp(-r * T) * norm.cdf(-d2) - S * norm.cdf(-d1)      for a put
closed_form_terms(S, K, T, r, sigma, option_type) ==
    LET d1 == d1_of(S, K, T, r, sigma)
        d2 == d2_of(d1, T, sigma)
    IN  IF option_type = CALL
        THEN S * norm_cdf5(d1) - discounted_strike(K, T, r) * norm_cdf5(d2)
        ELSE discounted_strike(K, T, r) * norm_cdf5(-d2) - S * norm_cdf5(-d1)

\* black_scholes_price for T > 0 and sigma > 0 (lines 62-82): the price field
scalar_price(S, K, T, r, sigma, option_type) ==
    Max(closed_form_terms(S, K, T, r, sigma, option_type), 0)

\* black_scholes_vectorized, one element (lines 110-143): the closed form on
\* T_safe and sigma_safe, overwritten where a mask holds
vectorized_price(S, K, T, r, sigma, option_type) ==
    LET expired_mask == T <= 0
        zero_vol_mask == sigma <= 0
        T_safe == IF expired_mask \/ zero_vol_mask THEN OneYear ELSE T
        sigma_safe == IF zero_vol_mask THEN OneSigma ELSE sigma
        prices == closed_form_terms(S, K, T_safe, r, sigma_safe, option_type)
        expired_applied ==
            IF expired_mask THEN expired_price(S, K, option_type) * 1000 ELSE prices
        zero_vol_applied ==
            IF zero_vol_mask /\ ~expired_mask
            THEN zero_vol_price(S, K, T, r, option_type) * 1000
            ELSE expired_applied
    IN  Max(zero_vol_applied, 0)

---------------------------------------------------------------------------
(* Specification SpecParity: a call and a put on the same S, K, T, r and   *)
(* sigma, all positive but r, priced by black_scholes_price and by          *)
(* black_scholes_vectorized.                                                *)

ParitySpots == {8000, 9000, 9500, 9900, 10000, 10100, 10500, 11000, 12500}

ParityDays == {1, 7, 30, 90, 365}

ParityVolatilities == {5, 20, 50, 100}

InitParity ==
    /\ f_pc = "called"
    /\ \E S \in ParitySpots, T \in ParityDays, sigma \in ParityVolatilities,
          r \in {0, RiskFreeRate} :
         f_in = [S |-> S, K |-> 10000, T |-> T, r |-> r, sigma |-> sigma]
    /\ f_out = [scalar |-> <<>>, vectorized |-> <<>>]
    /\ IdleCatalog /\ IdleStrikes /\ IdleOptions /\ IdlePortfolio

\* black_scholes_price called for the call and for the put
PriceScalarPair ==
    /\ f_pc = "called"
    /\ f_out.scalar = <<>>
    /\ f_out' = [f_out EXCEPT !.scalar =
           [option_type \in {CALL, PUT} |->
               scalar_price(f_in.S, f_in.K, f_in.T, f_in.r, f_in.sigma, option_type)]]
    /\ UNCHANGED <<f_pc, f_in>>
    /\ UNCHANGED <<catVars, kVars, oVars, pVars>>

\* black_scholes_vectorized called for the call and for the put
PriceVectorizedPair ==
    /\ f_pc = "called"
    /\ f_out.vectorized = <<>>
    /\ f_out' = [f_out EXCEPT !.vectorized =
           [option_type \in {CALL, PUT} |->
               vectorized_price(f_in.S, f_in.K, f_in.T, f_in.r, f_in.sigma, option_type)]]
    /\ UNCHANGED <<f_pc, f_in>>
    /\ UNCHANGED <<catVars, kVars, oVars, pVars>>

NextParity ==
    \/ PriceScalarPair
    \/ PriceVectorizedPair

SpecParity == InitParity /\ [][NextParity]_vars

---------------------------------------------------------------------------
(* Claims about put-call parity                                            *)

\* S - K * e^(-r * T), in 1e-5 cent
ParityValue == (f_in.S - discounted_strike(f_in.K, f_in.T, f_in.r)) * 100000

\* the error of a probability taken to 1e-5, on the spot and on the strike:
\* less than a quarter of a cent
ParityTolerance == f_in.S + f_in.K

\* call price - put price of a priced pair is S - K * e^(-r * T)
InParity(prices) ==
    /\ prices[CALL] - prices[PUT] - ParityValue <= ParityTolerance
    /\ ParityValue - (prices[CALL] - prices[PUT]) <= ParityTolerance

\* C25: for S > 0, K > 0, T > 0 and sigma > 0 the call price and the put
\* price returned by black_scholes_price, and those returned by
\* black_scholes_vectorized, differ by S - K * e^(-r * T), within the
\* tolerance of the arithmetic.
C25_PutCallParity ==
    /\ f_out.scalar # <<>> => InParity(f_out.scalar)
    /\ f_out.vectorized # <<>> => InParity(f_out.vectorized)

\* C25 witness: a pair priced both ways, 30 days from expiry with the spot
\* below the strike, where call and put both have a price and the put is the
\* dearer
C25_Witness ==
    /\ f_out.scalar # <<>> /\ f_out.vectorized # <<>>
    /\ f_in.S = 9500 /\ f_in.T = 30 /\ f_in.r > 0
    /\ f_out.scalar[CALL] > 0
    /\ f_out.scalar[PUT] > f_out.scalar[CALL]
    /\ f_out.vectorized[CALL] > 0

---------------------------------------------------------------------------
(* Claims about the closing trade of an options run                        *)

\* calculate_payoff at the final spot with the run's strikes, its entry
\* premiums and the entry spot as entry_stock_price, times 100 *
\* position_size, in cents
PayoffAtExpiry(final_spot) ==
    calculate_payoff(o_config.strategy_type, final_spot * 100,
                     [n \in 1..Len(o_strikes) |-> o_strikes[n] * 100],
                     o_entry_premiums,
                     IF StockLegOf(o_config.strategy_type).present
                     THEN o_price_data[1] * 100 ELSE None)
        * o_config.position_size

\* C26: the final_pnl of an EXPIRE trade is the strategy's calculate_payoff
\* at the final spot, with the run's strikes, the entry premiums and the
\* entry spot as entry_stock_price, times 100 * position_size, for every
\* strategy, every per-leg strike override and every price path.
C26_FinalPnlIsPayoff ==
    \A t \in 1..Len(o_trades) :
        o_trades[t].action = "EXPIRE" =>
            o_trades[t].final_pnl = PayoffAtExpiry(o_trades[t].spot_price)

---------------------------------------------------------------------------
(* Claims about the daily_pnl series of an options run                     *)

\* the run has left the daily loop
LoopLeft == o_pc \in {"stats", "returned"}

\* C27: record k (k = 0, 1, ...) of daily_pnl has dte = days_to_expiration
\* - k, which is never negative and falls by exactly 1 from a record to the
\* next; a run that has left the loop holds min(number of prices,
\* days_to_expiration + 1) records; the day-0 record has daily_pnl = 0 and
\* position_value = initial_capital.
C27_DteCountsDown ==
    /\ \A k \in 0..(Len(o_daily_pnl) - 1) :
          /\ o_daily_pnl[k + 1].dte = o_config.days_to_expiration - k
          /\ o_daily_pnl[k + 1].dte >= 0
          /\ k > 0 => o_daily_pnl[k + 1].dte = o_daily_pnl[k].dte - 1
    /\ LoopLeft =>
          Len(o_daily_pnl) = Min(Len(o_price_data), o_config.days_to_expiration + 1)
    /\ o_daily_pnl # <<>> =>
          /\ o_daily_pnl[1].daily_pnl = 0
          /\ o_daily_pnl[1].position_value = o_config.initial_capital

\* C27 witness: a run that has left the loop on the expiry day with more
\* prices than records, a strike override, a stock leg and a spot that moved
C27_Witness ==
    /\ LoopLeft
    /\ Len(o_daily_pnl) = o_config.days_to_expiration + 1
    /\ Len(o_price_data) > Len(o_daily_pnl)
    /\ o_daily_pnl[Len(o_daily_pnl)].dte = 0
    /\ o_daily_pnl[2].daily_pnl # 0
    /\ StockLegOf(o_config.strategy_type).present

\* C27 witness: a run that has left the loop at the end of the prices, before
\* the expiry day
C27_ShortSeries ==
    /\ LoopLeft
    /\ Len(o_daily_pnl) = Len(o_price_data)
    /\ Len(o_price_data) >= 2
    /\ o_daily_pnl[Len(o_daily_pnl)].dte > 0

---------------------------------------------------------------------------
(* Claims about the breakevens of the catalog                              *)

\* the net debit or credit of the strategies that have a spread, and the
\* width get_max_profit or get_max_loss reads for it
NetAndWidth(s, strikes, premiums) ==
    CASE s = "bull_call_spread" ->
            [net |-> premiums[1] - premiums[2], width |-> strikes[2] - strikes[1]]
      [] s = "bear_put_spread" ->
            [net |-> premiums[1] - premiums[2], width |-> strikes[1] - strikes[2]]
      [] s \in {"iron_condor", "iron_butterfly"} ->
            [net |-> premiums[2] + premiums[3] - premiums[1] - premiums[4],
             width |-> strikes[2] - strikes[1]]
      [] s = "butterfly_spread" ->
            [net |-> premiums[1] + premiums[3] - 2 * premiums[2],
             width |-> strikes[2] - strikes[1]]
      [] OTHER -> [net |-> 0, width |-> 0]

NetWithinWidth(s, strikes, premiums) ==
    /\ 0 <= NetAndWidth(s, strikes, premiums).net
    /\ NetAndWidth(s, strikes, premiums).net <= NetAndWidth(s, strikes, premiums).width

\* a breakeven of a stock-leg strategy lies where the option legs have no
\* kink between it and the entry: below the call's strike, above the put's
BetweenKinks(s, strikes, b) ==
    CASE s = "covered_call" -> b <= strikes[1]
      [] s = "protective_put" -> b >= strikes[1]
      [] s = "collar" -> strikes[1] <= b /\ b <= strikes[2]
      [] OTHER -> TRUE

\* the inputs the claim is about
BreakevenAssumptions ==
    /\ cat_pc = "evaluated"
    /\ EntrySupplied
    /\ StrikeOrderAssumed(cat_strategy, cat_strikes)
    /\ \A n \in 1..Len(cat_premiums) : cat_premiums[n] >= 0
    /\ NetWithinWidth(cat_strategy, cat_strikes, cat_premiums)

\* at most two breakevens, each one a root of calculate_payoff
BreakevensAreRoots ==
    /\ Len(cat_breakeven) <= 2
    /\ \A n \in 1..Len(cat_breakeven) :
          BetweenKinks(cat_strategy, cat_strikes, cat_breakeven[n]) =>
              calculate_payoff(cat_strategy, cat_breakeven[n], cat_strikes,
                               cat_premiums, cat_entry) = 0

\* C28: for every strategy, with the strikes in the order the strategy
\* assumes, premiums that are not negative and a net debit or credit between
\* 0 and the spread width (and, for a stock-leg strategy, entry_stock_price
\* supplied and the breakeven between the kinks of the option legs),
\* get_breakeven returns at most two prices and calculate_payoff is 0 at each.
C28_BreakevensAreRoots == BreakevenAssumptions => BreakevensAreRoots

\* the upper wing of a three- or four-strike strategy as wide as the lower
EqualWings ==
    CASE cat_strategy = "butterfly_spread" ->
            cat_strikes[3] - cat_strikes[2] = cat_strikes[2] - cat_strikes[1]
      [] cat_strategy \in {"iron_condor", "iron_butterfly"} ->
            cat_strikes[4] - cat_strikes[3] = cat_strikes[2] - cat_strikes[1]
      [] OTHER -> TRUE

\* with wings of equal width every returned breakeven is a root
BreakevensAreRootsOnEqualWings ==
    (BreakevenAssumptions /\ EqualWings) => BreakevensAreRoots

---------------------------------------------------------------------------
(* routers/portfolios.py, routers/history.py, auth/dependencies.py: the    *)
(* stored portfolios and history entries and the requests on them.         *)
(* A table is a function from the ids in use to rows.  A handler is an     *)
(* operator from the tables, the caller and the request to the set of its  *)
(* outcomes [status, portfolios, history, listed].  A portfolio's name and  *)
(* description and a history entry's dates and results are stored as they  *)
(* are given and enter no condition; they are left out of the rows.        *)

Put(table, id, row) ==
    [i \in DOMAIN table \cup {id} |-> IF i = id THEN row ELSE table[i]]

Drop(table, id) == [i \in DOMAIN table \ {id} |-> table[i]]

\* the users table: users 1 and 2 are active, user 3 is not
UserTable == [u \in {1, 2, 3} |-> [is_active |-> u # 3]]

\* get_current_user: token is the sub of the access_token cookie, None for a
\* missing, invalid or expired one
get_current_user(token) ==
    IF token = None THEN [raised |-> TRUE, id |-> None]
    ELSE IF token \notin DOMAIN UserTable THEN [raised |-> TRUE, id |-> None]
    ELSE IF ~UserTable[token].is_active THEN [raised |-> TRUE, id |-> None]
    ELSE [raised |-> FALSE, id |-> token]

\* the primary key of an added row: above every id in use (the largest id in
\* use plus one, or the next value of a sequence)
NewIds(table, max_rows) ==
    {id \in 1..max_rows : \A used \in DOMAIN table : used < id}

\* the row with this id whatever its owner
first_AnyOwner(table, id, user_id) ==
    IF id \in DOMAIN table THEN id ELSE None

\* db.query(...).filter(id == ..., user_id == current_user.id).first()
first(table, id, user_id) ==
    IF id \in DOMAIN table /\ table[id].user_id = user_id THEN id ELSE None

Outcome(status, portfolios, history, listed) ==
    [status |-> status, portfolios |-> portfolios, history |-> history,
     listed |-> listed]

\* create_portfolio, lines 21-53
create_portfolio(portfolios, history, user_id, portfolio, max_rows) ==
    IF Len(portfolio.tickers) # Len(portfolio.weights)
    THEN {Outcome(400, portfolios, history, {})}
    ELSE IF ~WeightSumInTolerance(sum(portfolio.weights))
    THEN {Outcome(400, portfolios, history, {})}
    ELSE {Outcome(201,
                  Put(portfolios, id,
                      [user_id |-> user_id, tickers |-> portfolio.tickers,
                       weights |-> portfolio.weights,
                       is_favorite |-> portfolio.is_favorite]),
                  history, {id}) : id \in NewIds(portfolios, max_rows)}

\* list_portfolios, lines 56-78, with skip = 0 and limit above the rows
list_portfolios(portfolios, history, user_id, favorites_only) ==
    {Outcome(200, portfolios, history,
             {id \in DOMAIN portfolios :
                 /\ portfolios[id].user_id = user_id
                 /\ favorites_only => portfolios[id].is_favorite = "True"})}

\* get_portfolio, lines 81-103
get_portfolio(portfolios, history, user_id, portfolio_id) ==
    IF first(portfolios, portfolio_id, user_id) = None
    THEN {Outcome(404, portfolios, history, {})}
    ELSE {Outcome(200, portfolios, history, {portfolio_id})}

\* update_data: the fields the body sets; a field set to null is in nulls
Has(update_data, key) == key \in update_data.set

IsNull(update_data, key) == key \in update_data.nulls

\* the checks of update_portfolio with the elif branch of line 142 left out:
\* an update of tickers alone or weights alone is not validated
update_checks_BothOnly(row, update_data) ==
    IF Has(update_data, "tickers") /\ Has(update_data, "weights")
    THEN IF IsNull(update_data, "tickers") \/ IsNull(update_data, "weights")
         THEN 500
         ELSE IF Len(update_data.tickers) # Len(update_data.weights) THEN 400
         ELSE IF ~WeightSumInTolerance(sum(update_data.weights)) THEN 400
         ELSE 200
    ELSE 200

\* update_portfolio, lines 128-157: 400 for a rejected update, 500 for the
\* TypeError of len(None), 200 when the checks pass
update_checks(row, update_data) ==
    IF Has(update_data, "tickers") /\ Has(update_data, "weights")
    THEN IF IsNull(update_data, "tickers") \/ IsNull(update_data, "weights")
         THEN 500
         ELSE IF Len(update_data.tickers) # Len(update_data.weights) THEN 400
         ELSE IF ~WeightSumInTolerance(sum(update_data.weights)) THEN 400
         ELSE 200
    ELSE IF Has(update_data, "tickers") \/ Has(update_data, "weights")
    THEN IF IsNull(update_data, "tickers") \/ IsNull(update_data, "weights")
         THEN 500
         ELSE LET tickers == IF Has(update_data, "tickers")
                             THEN update_data.tickers ELSE row.tickers
                  weights == IF Has(update_data, "weights")
                             THEN update_data.weights ELSE row.weights
              IN  IF Len(tickers) # Len(weights) THEN 400
                  ELSE IF Has(update_data, "weights")
                          /\ ~WeightSumInTolerance(sum(weights)) THEN 400
                  ELSE 200
    ELSE 200

\* lines 159-160: setattr(portfolio, key, value) for every field set
setattr_all(row, update_data) ==
    [user_id |-> row.user_id,
     tickers |-> IF Has(update_data, "tickers") THEN update_data.tickers ELSE row.tickers,
     weights |-> IF Has(update_data, "weights") THEN update_data.weights ELSE row.weights,
     is_favorite |-> IF Has(update_data, "is_favorite")
                     THEN (IF IsNull(update_data, "is_favorite")
                           THEN "None" ELSE update_data.is_favorite)
                     ELSE row.is_favorite]

\* update_portfolio, lines 106-165.  The row is committed before the
\* response is built: a row whose is_favorite is null does not validate as
\* a PortfolioResponse, and the committed update is answered 500.
update_portfolio(portfolios, history, user_id, portfolio_id, update_data) ==
    IF first(portfolios, portfolio_id, user_id) = None
    THEN {Outcome(404, portfolios, history, {})}
    ELSE LET checked == update_checks(portfolios[portfolio_id], update_data)
             updated == setattr_all(portfolios[portfolio_id], update_data)
         IN  IF checked # 200
             THEN {Outcome(checked, portfolios, history, {})}
             ELSE {Outcome(IF updated.is_favorite = "None" THEN 500 ELSE 200,
                           Put(portfolios, portfolio_id, updated), history,
                           {portfolio_id})}

\* models/backtest_history.py line 43: the history entries of a deleted
\* portfolio (its backtest_runs) have their portfolio_id set to null
Orphaned(history, portfolio_id) ==
    [h \in DOMAIN history |->
        IF history[h].portfolio_id = portfolio_id
        THEN [history[h] EXCEPT !.portfolio_id = None]
        ELSE history[h]]

\* delete_portfolio, lines 168-193
delete_portfolio(portfolios, history, user_id, portfolio_id) ==
    IF first(portfolios, portfolio_id, user_id) = None
    THEN {Outcome(404, portfolios, history, {})}
    ELSE {Outcome(204, Drop(portfolios, portfolio_id),
                  Orphaned(history, portfolio_id), {})}

\* toggle_favorite, lines 196-221: not None is True
toggle_favorite(portfolios, history, user_id, portfolio_id) ==
    IF first(portfolios, portfolio_id, user_id) = None
    THEN {Outcome(404, portfolios, history, {})}
    ELSE {Outcome(200,
                  Put(portfolios, portfolio_id,
                      [portfolios[portfolio_id] EXCEPT !.is_favorite =
                          IF @ = "True" THEN "False" ELSE "True"]),
                  history, {portfolio_id})}

\* list_history, routers/history.py lines 31-49
list_history(portfolios, history, user_id) ==
    {Outcome(200, portfolios, history,
             {id \in DOMAIN history : history[id].user_id = user_id})}

\* get_history, lines 52-73
get_history(portfolios, history, user_id, history_id) ==
    IF first(history, history_id, user_id) = None
    THEN {Outcome(404, portfolios, history, {})}
    ELSE {Outcome(200, portfolios, history, {history_id})}

\* delete_history, lines 76-98
delete_history(portfolios, history, user_id, history_id) ==
    IF first(history, history_id, user_id) = None
    THEN {Outcome(404, portfolios, history, {})}
    ELSE {Outcome(204, portfolios, Drop(history, history_id), {})}

\* run_and_save_backtest, lines 101-262: 400 for rejected weights and for a
\* failed or empty fetch; otherwise the run, saved when save_to_history
run_and_save_backtest(portfolios, history, user_id, request, max_rows) ==
    IF Len(request.tickers) # Len(request.weights)
    THEN {Outcome(400, portfolios, history, {})}
    ELSE IF ~WeightSumInTolerance(sum(request.weights))
    THEN {Outcome(400, portfolios, history, {})}
    ELSE {Outcome(400, portfolios, history, {})}
         \cup (IF request.save_to_history
               THEN {Outcome(200, portfolios,
                             Put(history, id,
                                 [user_id |-> user_id,
                                  portfolio_id |-> request.portfolio_id,
                                  tickers |-> request.tickers,
                                  weights |-> request.weights]),
                             {id}) : id \in NewIds(history, max_rows)}
               ELSE {Outcome(200, portfolios, history, {})})

---------------------------------------------------------------------------
(* The requests served.  f_in names the workload: who calls and with      *)
(* which bodies.  f_out holds the tables and the response to the last      *)
(* request.                                                                *)

SavedTickers == {<<"AAA">>, <<"AAA", "BBB">>, <<"BBB", "AAA">>}

\* weights that pass the sum check and weights that fail it on either side
SavedWeights == {<<1000>>, <<600, 400>>, <<400, 600>>, <<600, 380>>, <<1011>>}

SavedCreates ==
    [tickers : SavedTickers, weights : SavedWeights, is_favorite : {"False"}]

\* a body of PortfolioUpdate: the fields it sets, those it sets to null, and
\* the values
Body(set, nulls, tickers, weights, is_favorite) ==
    [set |-> set, nulls |-> nulls, tickers |-> tickers, weights |-> weights,
     is_favorite |-> is_favorite]

\* bodies that set tickers and weights, tickers alone, weights alone,
\* is_favorite alone, each with values and with null
SavedUpdates ==
    {Body({"tickers", "weights"}, {}, t, w, "False") :
        t \in SavedTickers, w \in SavedWeights}
    \cup {Body({"tickers", "weights"}, nulls, <<"AAA">>, <<1000>>, "False") :
            nulls \in {{"tickers"}, {"weights"}, {"tickers", "weights"}}}
    \cup {Body({"tickers"}, {}, t, <<1000>>, "False") : t \in SavedTickers}
    \cup {Body({"weights"}, {}, <<"AAA">>, w, "False") : w \in SavedWeights}
    \cup {Body({"tickers"}, {"tickers"}, <<"AAA">>, <<1000>>, "False"),
          Body({"weights"}, {"weights"}, <<"AAA">>, <<1000>>, "False"),
          Body({"is_favorite"}, {}, <<"AAA">>, <<1000>>, "True"),
          Body({"is_favorite"}, {"is_favorite"}, <<"AAA">>, <<1000>>, "False"),
          Body({}, {}, <<"AAA">>, <<1000>>, "False")}

\* the bodies of the isolation workload: a create that passes and one that
\* fails, an update that changes the row and one that is rejected, a run
\* saved under the portfolio_id 1, a run not saved and a run rejected
IsolationCreates ==
    [tickers : {<<"AAA">>}, weights : {<<1000>>, <<989>>}, is_favorite : {"False"}]

IsolationUpdates ==
    {[set |-> {"is_favorite"}, nulls |-> {}, tickers |-> <<"AAA">>,
      weights |-> <<1000>>, is_favorite |-> "True"],
     [set |-> {"weights"}, nulls |-> {}, tickers |-> <<"AAA">>,
      weights |-> <<989>>, is_favorite |-> "False"]}

IsolationRuns ==
    {[tickers |-> <<"AAA">>, weights |-> <<1000>>, portfolio_id |-> 1,
      save_to_history |-> TRUE],
     [tickers |-> <<"AAA">>, weights |-> <<1000>>, portfolio_id |-> None,
      save_to_history |-> FALSE],
     [tickers |-> <<"AAA">>, weights |-> <<989>>, portfolio_id |-> None,
      save_to_history |-> TRUE]}

Creates == IF f_in.workload = "saved" THEN SavedCreates ELSE IsolationCreates

Updates == IF f_in.workload = "saved" THEN SavedUpdates ELSE IsolationUpdates

Runs == IF f_in.workload = "saved" THEN {} ELSE IsolationRuns

\* the rows of the two tables together in the isolation workload
MaxRows == 2

\* the portfolios stored in the saved workload
MaxSaved == 1

Capacity == IF f_in.workload = "saved" THEN MaxSaved ELSE MaxRows

Response(op, user_id, id, partial, outcome) ==
    [op |-> op, user_id |-> user_id, id |-> id, partial |-> partial,
     status |-> outcome.status, listed |-> outcome.listed]

\* the dependency get_current_user answers 401 before the handler runs
Unauthorized ==
    [op |-> "get_current_user", user_id |-> None, id |-> None, partial |-> "none",
     status |-> 401, listed |-> {}]

RowsStored == Cardinality(DOMAIN f_out.portfolios) + Cardinality(DOMAIN f_out.history)

\* which of tickers and weights an update sets
PartialOf(update_data) ==
    IF Has(update_data, "tickers") /\ Has(update_data, "weights") THEN "both"
    ELSE IF Has(update_data, "tickers") THEN "tickers"
    ELSE IF Has(update_data, "weights") THEN "weights"
    ELSE "none"

\* a request answered 401 by the dependency
Refuse ==
    /\ f_pc = "serving"
    /\ f_out' = [f_out EXCEPT !.response = Unauthorized]
    /\ UNCHANGED <<f_pc, f_in>>
    /\ UNCHANGED <<catVars, kVars, oVars, pVars>>

\* a request served by its handler: one of the handler's outcomes
Serve(op, user_id, id, partial, outcomes) ==
    /\ f_pc = "serving"
    /\ \E outcome \in outcomes :
          f_out' = [portfolios |-> outcome.portfolios,
                    history |-> outcome.history,
                    response |-> Response(op, user_id, id, partial, outcome)]
    /\ UNCHANGED <<f_pc, f_in>>
    /\ UNCHANGED <<catVars, kVars, oVars, pVars>>

Ids == 1..Capacity

\* the sub of the caller's access_token: None without a valid cookie, 3 an
\* inactive user
Tokens == IF f_in.workload = "saved" THEN {None, 1, 3} ELSE {None, 1, 2}

CreatePortfolio ==
    \E token \in Tokens :
        IF get_current_user(token).raised THEN Refuse
        ELSE \E portfolio \in Creates :
               /\ RowsStored < Capacity \/ Len(portfolio.tickers) # Len(portfolio.weights)
                    \/ ~WeightSumInTolerance(sum(portfolio.weights))
               /\ Serve("create_portfolio", token, None, "none",
                     create_portfolio(f_out.portfolios, f_out.history, token,
                                      portfolio, Capacity))

ListPortfolios ==
    \E token \in Tokens :
        IF get_current_user(token).raised THEN Refuse
        ELSE \E favorites_only \in BOOLEAN :
               Serve("list_portfolios", token, None, "none",
                     list_portfolios(f_out.portfolios, f_out.history, token,
                                     favorites_only))

GetPortfolio ==
    \E token \in Tokens :
        IF get_current_user(token).raised THEN Refuse
        ELSE \E portfolio_id \in Ids :
               Serve("get_portfolio", token, portfolio_id, "none",
                     get_portfolio(f_out.portfolios, f_out.history, token,
                                   portfolio_id))

UpdatePortfolio ==
    \E token \in Tokens :
        IF get_current_user(token).raised THEN Refuse
        ELSE \E portfolio_id \in Ids, update_data \in Updates :
               Serve("update_portfolio", token, portfolio_id, PartialOf(update_data),
                     update_portfolio(f_out.portfolios, f_out.history, token,
                                      portfolio_id, update_data))

DeletePortfolio ==
    \E token \in Tokens :
        IF get_current_user(token).raised THEN Refuse
        ELSE \E portfolio_id \in Ids :
               Serve("delete_portfolio", token, portfolio_id, "none",
                     delete_portfolio(f_out.portfolios, f_out.history, token,
                                      portfolio_id))

ToggleFavorite ==
    \E token \in Tokens :
        IF get_current_user(token).raised THEN Refuse
        ELSE \E portfolio_id \in Ids :
               Serve("toggle_favorite", token, portfolio_id, "none",
                     toggle_favorite(f_out.portfolios, f_out.history, token,
                                     portfolio_id))

ListHistory ==
    \E token \in Tokens :
        IF get_current_user(token).raised THEN Refuse
        ELSE Serve("list_history", token, None, "none",
                     list_history(f_out.portfolios, f_out.history, token))

GetHistory ==
    \E token \in Tokens :
        IF get_current_user(token).raised THEN Refuse
        ELSE \E history_id \in Ids :
               Serve("get_history", token, history_id, "none",
                     get_history(f_out.portfolios, f_out.history, token, history_id))

DeleteHistory ==
    \E token \in Tokens :
        IF get_current_user(token).raised THEN Refuse
        ELSE \E history_id \in Ids :
               Serve("delete_history", token, history_id, "none",
                     delete_history(f_out.portfolios, f_out.history, token, history_id))

RunAndSave ==
    \E token \in Tokens :
        IF get_current_user(token).raised THEN Refuse
        ELSE \E request \in Runs :
               /\ RowsStored < Capacity \/ ~request.save_to_history
               /\ Serve("run_and_save_backtest", token, None, "none",
                     run_and_save_backtest(f_out.portfolios, f_out.history, token,
                                           request, Capacity))

EmptyStore ==
    [portfolios |-> <<>>, history |-> <<>>,
     response |-> [op |-> "", user_id |-> None, id |-> None, partial |-> "none",
                   status |-> 0, listed |-> {}]]

---------------------------------------------------------------------------
(* Specification SpecSaved: one user, an inactive user and callers without *)
(* a session create, update, toggle, delete and read saved portfolios,     *)
(* with bodies that pass and bodies that fail each check, whole and        *)
(* partial.                                                                *)

InitSaved ==
    /\ f_pc = "serving"
    /\ f_in = [workload |-> "saved"]
    /\ f_out = EmptyStore
    /\ IdleCatalog /\ IdleStrikes /\ IdleOptions /\ IdlePortfolio

NextSaved ==
    \/ CreatePortfolio
    \/ ListPortfolios
    \/ GetPortfolio
    \/ UpdatePortfolio
    \/ DeletePortfolio
    \/ ToggleFavorite

SpecSaved == InitSaved /\ [][NextSaved]_vars

---------------------------------------------------------------------------
(* Claims about the stored portfolios                                      *)

\* every stored portfolio has as many weights as tickers and a weight sum
\* in [0.99, 1.01]
StoredPortfoliosValid ==
    \A id \in DOMAIN f_out.portfolios :
        /\ Len(f_out.portfolios[id].weights) = Len(f_out.portfolios[id].tickers)
        /\ WeightSumInTolerance(sum(f_out.portfolios[id].weights))

\* a create or an update answered with a rejection (400 or 404), and any
\* request answered 401 by the session check, leaves the portfolios as they
\* were
RejectedLeavesStored ==
    (\/ /\ f_out'.response.op \in {"create_portfolio", "update_portfolio"}
        /\ f_out'.response.status \in {400, 404}
     \/ f_out'.response.status = 401)
        => f_out'.portfolios = f_out.portfolios

\* C29: after any sequence of create, update, toggle-favorite and delete
\* requests every stored portfolio has as many weights as tickers and a
\* weight sum in [0.99, 1.01], an update of tickers alone or of weights alone
\* included, and a rejected create or update leaves the stored portfolios
\* unchanged.
C29_StoredPortfoliosValid ==
    /\ []StoredPortfoliosValid
    /\ [][RejectedLeavesStored]_vars

\* C29 witness: an update of the tickers alone was accepted on a portfolio
\* of two tickers and changed them
C29_Witness ==
    /\ f_out.response.op = "update_portfolio"
    /\ f_out.response.partial = "tickers"
    /\ f_out.response.status = 200
    /\ \E id \in f_out.response.listed :
          f_out.portfolios[id].tickers = <<"BBB", "AAA">>

\* C29 witness: an update of the weights alone was rejected
C29_RejectedWitness ==
    /\ f_out.response.op = "update_portfolio"
    /\ f_out.response.partial = "weights"
    /\ f_out.response.status = 400
    /\ f_out.portfolios # <<>>

---------------------------------------------------------------------------
(* Specification SpecIsolation: two users and callers without a session    *)
(* work on the saved portfolios and on the history entries.                *)

InitIsolation ==
    /\ f_pc = "serving"
    /\ f_in = [workload |-> "isolation"]
    /\ f_out = EmptyStore
    /\ IdleCatalog /\ IdleStrikes /\ IdleOptions /\ IdlePortfolio

NextIsolation ==
    \/ CreatePortfolio
    \/ ListPortfolios
    \/ GetPortfolio
    \/ UpdatePortfolio
    \/ DeletePortfolio
    \/ ToggleFavorite
    \/ ListHistory
    \/ GetHistory
    \/ DeleteHistory
    \/ RunAndSave

SpecIsolation == InitIsolation /\ [][NextIsolation]_vars

---------------------------------------------------------------------------
(* Claims about the owner of a stored entry                                *)

PortfolioRequests ==
    {"get_portfolio", "update_portfolio", "delete_portfolio", "toggle_favorite"}

HistoryRequests == {"get_history", "delete_history"}

\* the table a request on one entry works on, before the request
TableOf(op) == IF op \in PortfolioRequests THEN f_out.portfolios ELSE f_out.history

\* the step serves a request on one entry that exists and is owned by
\* another user than the caller
ForeignRequest ==
    /\ f_out'.response.op \in PortfolioRequests \cup HistoryRequests
    /\ f_out'.response.user_id # None
    /\ f_out'.response.id \in DOMAIN TableOf(f_out'.response.op)
    /\ TableOf(f_out'.response.op)[f_out'.response.id].user_id # f_out'.response.user_id

\* a request on another user's entry is answered 404 and changes no entry
ForeignNotFound ==
    ForeignRequest =>
        /\ f_out'.response.status = 404
        /\ f_out'.portfolios = f_out.portfolios
        /\ f_out'.history = f_out.history

\* an entry stored before and after a step has the same owner
OwnerKept ==
    /\ \A id \in DOMAIN f_out.portfolios \cap DOMAIN f_out'.portfolios :
          f_out'.portfolios[id].user_id = f_out.portfolios[id].user_id
    /\ \A id \in DOMAIN f_out.history \cap DOMAIN f_out'.history :
          f_out'.history[id].user_id = f_out.history[id].user_id

\* a list response holds the caller's entries and no other
ListsOwn ==
    /\ f_out.response.op = "list_portfolios" /\ f_out.response.status = 200 =>
          /\ \A id \in f_out.response.listed :
                f_out.portfolios[id].user_id = f_out.response.user_id
          /\ \A id \in DOMAIN f_out.portfolios :
                (/\ f_out.portfolios[id].user_id = f_out.response.user_id
                 /\ f_out.portfolios[id].is_favorite = "True")
                    => id \in f_out.response.listed
    /\ f_out.response.op = "list_history" /\ f_out.response.status = 200 =>
          f_out.response.listed =
              {id \in DOMAIN f_out.history :
                  f_out.history[id].user_id = f_out.response.user_id}

\* C30: a get, update, delete or toggle-favorite request by one user on a
\* saved portfolio or history entry of another user is answered 404 and
\* leaves the entry unchanged; a list holds only the caller's entries; no
\* entry's user_id ever changes.
C30_OwnerIsolation ==
    /\ []ListsOwn
    /\ [][ForeignNotFound /\ OwnerKept]_vars

\* C30 witness: a user's update of the other user's portfolio was answered
\* 404, the caller holding an entry of their own
C30_Witness ==
    /\ f_out.response.op = "update_portfolio"
    /\ f_out.response.status = 404
    /\ f_out.response.id \in DOMAIN f_out.portfolios
    /\ f_out.portfolios[f_out.response.id].user_id # f_out.response.user_id
    /\ \E id \in DOMAIN f_out.history :
          f_out.history[id].user_id = f_out.response.user_id

\* C30 witness: a user's delete of the other user's history entry was
\* answered 404
C30_HistoryWitness ==
    /\ f_out.response.op = "delete_history"
    /\ f_out.response.status = 404
    /\ f_out.response.id \in DOMAIN f_out.history
    /\ f_out.history[f_out.response.id].user_id # f_out.response.user_id

====
